---- MODULE Spec2Model ----
(***************************************************************************)
(* LINE OCR receipt processor: the usage ledger (services/usage.js), the   *)
(* single-corp webhook pipeline (index.js), the per-corp ledger of the     *)
(* config service and the model fallback loop of the Gemini service.       *)
(***************************************************************************)
EXTENDS Integers, Sequences, FiniteSets, TLC

VARIABLES month, now, sheetExists, rows, usageCache, retryCache, tasks, events,
          lastLog, hist, quota, gem, corpSheetId, corps, ctasks, cevents, norm,
          mcorp

pipeVars == <<month, now, sheetExists, rows, usageCache, retryCache, tasks,
              events, lastLog, hist>>

\* the variables the pipeline and the ledger leave alone
offPipe == <<quota, gem, corpSheetId, corps, ctasks, cevents, norm, mcorp>>

corpVars == <<corpSheetId, corps, ctasks, cevents>>

vars == <<pipeVars, offPipe>>

(***************************************************************************)
(* Bounds of the model                                                     *)
(***************************************************************************)
\* webhook events handled in one behaviour of the pipeline
MaxEvents == 3
\* calls of the ledger's functions in one behaviour of the ledger
MaxCalls == 3
\* period keys 1..MaxMonth stand for consecutive YYYYMM keys
MaxMonth == 2
\* clock steps in one behaviour, each of TickMs milliseconds
MaxTicks == 1
TickMs == 30000
\* OCR_MONTHLY_LIMIT of the deployment (975 when unset)
MONTHLY_LIMIT == 2

\* counts and limits the quota gate is asked about, besides the default's edge
MaxUsed == 10
MaxLimit == 5
\* calls of the per-corp ledger in one behaviour
MaxCorpCalls == 3
\* largest number an admin types into a cell of the corps tab
MaxCell == 2
\* longest list of line items built from the sample entries
MaxItems == 2

\* callers of the ledger that run concurrently (one per webhook request)
LedgerTasks == {"t1", "t2"}
\* the webhook endpoint awaits handleEvent for one event after the other
PipeTasks == {"t1"}
Users == {"u1", "u2"}
DocKinds == {"image", "pdf"}

(***************************************************************************)
(* services/usage.js                                                       *)
(***************************************************************************)
\* the cache is served for less than this many milliseconds
CACHE_TTL == 60000

\* row 1 of the Usage sheet, ['Month', 'Count']: its key is no period key
HeaderRow == [month |-> 0, count |-> 0]

\* usageCache = { month: null, count: 0, lastUpdated: null }
EmptyCache == [month |-> 0, count |-> 0, lastUpdated |-> 0]

\* index (1-based, as in the sheet) of the first row of period m, 0 when none
RECURSIVE FindRow(_, _, _)
FindRow(rs, m, i) ==
    IF i > Len(rs) THEN 0
    ELSE IF rs[i].month = m THEN i
    ELSE FindRow(rs, m, i + 1)

\* what a read of Usage!A:B finds for period m
StoredCount(rs, m) ==
    LET i == FindRow(rs, m, 1) IN IF i = 0 THEN 0 ELSE rs[i].count

\* a cache trusted for a minute whatever period it was filled in
CacheValid_AnyMonth(c, cur, t) ==
    /\ c.lastUpdated # 0
    /\ t - c.lastUpdated < CACHE_TTL

\* getUsageCount: "same month, updated within last minute"
CacheValid(c, cur, t) ==
    /\ c.month = cur
    /\ c.lastUpdated # 0
    /\ t - c.lastUpdated < CACHE_TTL

\* checkOCRAvailability letting a count equal to the limit through
CheckOCRAvailability_Inclusive(count, limit) ==
    IF count > limit
    THEN [canUseOCR |-> FALSE, count |-> count, limit |-> limit,
          remaining |-> 0, message |-> "quota"]
    ELSE [canUseOCR |-> TRUE, count |-> count, limit |-> limit,
          remaining |-> limit - count, message |-> "null"]

\* checkOCRAvailability on the count getUsageCount returned
CheckOCRAvailability(count, limit) ==
    IF count >= limit
    THEN [canUseOCR |-> FALSE, count |-> count, limit |-> limit,
          remaining |-> 0, message |-> "quota"]
    ELSE [canUseOCR |-> TRUE, count |-> count, limit |-> limit,
          remaining |-> limit - count, message |-> "null"]

\* getUsageStats on the count getUsageCount returned
GetUsageStats(count, limit) ==
    [used |-> count, limit |-> limit,
     remaining |-> IF limit - count > 0 THEN limit - count ELSE 0,
     isQuotaExceeded |-> count >= limit]

\* parseInt(process.env.OCR_MONTHLY_LIMIT, 10) || 975; env 0 stands for unset,
\* unparsable or "0"
DEFAULT_MONTHLY_LIMIT == 975

MonthlyLimit(env) == IF env = 0 THEN DEFAULT_MONTHLY_LIMIT ELSE env

\* no call of the quota gate has been made yet
NoQuota ==
    [called |-> FALSE, used |-> 0, limit |-> 0,
     avail |-> [canUseOCR |-> FALSE, count |-> 0, limit |-> 0, remaining |-> 0,
                message |-> "null"],
     stats |-> [used |-> 0, limit |-> 0, remaining |-> 0, isQuotaExceeded |-> FALSE]]

(***************************************************************************)
(* services/gemini.js: parseInvoice, the model fallback chain and retries  *)
(***************************************************************************)
MODEL_FALLBACK_CHAIN ==
    <<"gemini-2.5-flash", "gemini-2.0-flash", "gemini-2.0-flash-001">>

\* values of process.env.GEMINI_MODEL: unset, a chain member, another model
GeminiModelEnv ==
    {"", "gemini-2.5-flash", "gemini-2.0-flash", "gemini-2.0-flash-001",
     "gemini-1.5-pro"}

\* const maxRetries = 3
MaxRetries == 3

\* the factor of Math.pow(2, attempt) * 5000
BACKOFF_MS == 5000

\* process.env.GEMINI_MODEL || MODEL_FALLBACK_CHAIN[0]
GetModelName(env) == IF env = "" THEN MODEL_FALLBACK_CHAIN[1] ELSE env

\* ModelsToTry without the filter on the chain
ModelsToTry_Unfiltered(env) == <<GetModelName(env)>> \o MODEL_FALLBACK_CHAIN

\* [getModelName(), ...MODEL_FALLBACK_CHAIN.filter(m => m !== getModelName())]
ModelsToTry(env) ==
    LET keep(m) == m # GetModelName(env) IN
    <<GetModelName(env)>> \o SelectSeq(MODEL_FALLBACK_CHAIN, keep)

\* the inner loop's test with one attempt too many
AttemptsLeft_OneMore(attempt) == attempt <= MaxRetries + 1

\* for (let attempt = 1; attempt <= maxRetries; attempt++)
AttemptsLeft(attempt) == attempt <= MaxRetries

RECURSIVE Pow2(_)
Pow2(n) == IF n = 0 THEN 1 ELSE 2 * Pow2(n - 1)

\* a backoff of 5 s, 10 s, 20 s
WaitTime_FromZero(attempt) == Pow2(attempt - 1) * BACKOFF_MS

\* const waitTime = Math.pow(2, attempt) * 5000
WaitTime(attempt) == Pow2(attempt) * BACKOFF_MS

\* no parseInvoice call is running. outs holds the outcome of every attempt
\* made, log the model of every backend call made, lastError the error last
\* caught and the attempt it came from
NoError == [kind |-> "none", at |-> 0]

IdleGem ==
    [pc |-> "idle", env |-> "", models |-> <<>>, mi |-> 0, attempt |-> 0,
     log |-> <<>>, outs |-> <<>>, lastError |-> NoError, wait |-> 0]

\* the outer loop moves to the next model, or the loops are over:
\* `throw lastError`
NextModel(g) ==
    IF g.mi + 1 > Len(g.models)
    THEN [g EXCEPT !.pc = "thrown"]
    ELSE [g EXCEPT !.pc = "call", !.mi = g.mi + 1, !.attempt = 1]

\* `continue`: attempt++, then the inner loop's test
NextAttempt(g) ==
    IF AttemptsLeft(g.attempt + 1)
    THEN [g EXCEPT !.pc = "call", !.attempt = g.attempt + 1]
    ELSE NextModel(g)

\* parseInvoice is called: modelsToTry, first model, first attempt
GemStart(env) ==
    /\ gem.pc \in {"idle", "returned", "thrown"}
    /\ gem' = [IdleGem EXCEPT !.pc = "call", !.env = env,
                              !.models = ModelsToTry(env), !.mi = 1, !.attempt = 1]
    /\ UNCHANGED <<pipeVars, mcorp, quota, corpVars, norm>>

\* the catch block keeping the first error it saw
Caught_KeepFirst(g, kind) ==
    IF g.lastError = NoError
    THEN [g EXCEPT !.lastError = [kind |-> kind, at |-> Len(g.outs)]]
    ELSE g

\* catch (error) { lastError = error; ...
Caught(g, kind) == [g EXCEPT !.lastError = [kind |-> kind, at |-> Len(g.outs)]]

\* the catch block's test of the message: '429' is looked for first, then '404'
ErrorClass(kind) ==
    CASE kind = "429" -> "rateLimit"
      [] kind = "404" -> "notFound"
      [] OTHER -> "other"

\* a 404 handled like a rate limit: wait, then the same model again
OnNotFound_Backoff(g) == [g EXCEPT !.pc = "wait", !.wait = WaitTime(g.attempt)]

\* error.message.includes('404'): `break`, the next model
OnNotFound(g) == NextModel(g)

\* any other error handled like a missing model
OnOtherError_NextModel(g) == NextModel(g)

\* any other error: `throw error`
OnOtherError(g) == [g EXCEPT !.pc = "thrown"]

\* error.message.includes('429'): wait Math.pow(2, attempt) * 5000 ms
OnRateLimit(g) == [g EXCEPT !.pc = "wait", !.wait = WaitTime(g.attempt)]

\* one iteration of the inner loop up to its await: getClient, generateContent
\* and what follows in the try or the catch block.
\* Outcomes: ok (JSON parsed, normalized), json (parseJsonResponse throws),
\* 429, 404, other (any other error of the call), nokey (getClient throws
\* before any call is made; genAI is created by the run's first attempt)
GemCall(outcome) ==
    /\ gem.pc = "call"
    /\ outcome = "nokey" => gem.outs = <<>>
    /\ LET called == IF outcome = "nokey" THEN gem
                     ELSE [gem EXCEPT !.log = Append(gem.log, gem.models[gem.mi])]
           g == [called EXCEPT !.outs = Append(gem.outs, outcome)]
       IN
       gem' = IF outcome = "ok" THEN [g EXCEPT !.pc = "returned"]
              ELSE CASE ErrorClass(outcome) = "rateLimit" ->
                            OnRateLimit(Caught(g, outcome))
                     [] ErrorClass(outcome) = "notFound" ->
                            OnNotFound(Caught(g, outcome))
                     [] OTHER -> OnOtherError(Caught(g, outcome))
    /\ UNCHANGED <<pipeVars, mcorp, quota, corpVars, norm>>

\* the backoff timer fires: `continue`
GemWake ==
    /\ gem.pc = "wait"
    /\ gem' = NextAttempt([gem EXCEPT !.wait = 0])
    /\ UNCHANGED <<pipeVars, mcorp, quota, corpVars, norm>>

(***************************************************************************)
(* services/config.js: the per-corp usage column of the corps tab          *)
(***************************************************************************)
CorpNames == {"acme", "bolt"}
\* callers of the config service that run concurrently
CorpTasks == {"c1", "c2"}

\* `parseInt(row[4]) || 500`, `return { used: 0, limit: 500, ... }`
DEFAULT_CORP_LIMIT == 500

\* a cell of the corps tab: blank ({}) or the number typed into it
Cells == {{}} \cup {{n} : n \in 0..MaxCell}

\* parseInt(cell) || dflt
ParseIntOr(cell, dflt) ==
    IF cell = {} THEN dflt
    ELSE LET n == CHOOSE x \in cell : TRUE IN IF n = 0 THEN dflt ELSE n

\* the corps tab without any corp row
NoCorps == [c \in {} |-> [limit |-> {}, used |-> {}]]

\* the corps tab as set up: a row for acme, none for bolt
StartCorps == [c \in {"acme"} |-> [limit |-> {MaxCell}, used |-> {}]]

\* getCorpUsageStats when it returns before or without finding the row: no
\* rowIndex and no isQuotaExceeded
DefaultStats ==
    [used |-> 0, limit |-> DEFAULT_CORP_LIMIT, remaining |-> DEFAULT_CORP_LIMIT,
     isQuotaExceeded |-> FALSE, found |-> FALSE]

\* getCorpUsageStats answering as if the quota were used up when the read fails
FailedStats_Closed ==
    [used |-> 0, limit |-> DEFAULT_CORP_LIMIT, remaining |-> 0,
     isQuotaExceeded |-> TRUE, found |-> FALSE]

\* getCorpUsageStats in its catch block
FailedStats == DefaultStats

\* getCorpUsageStats: ok says whether values.get answered
GetCorpUsageStats(tab, sheetId, corp, ok) ==
    IF ~sheetId THEN DefaultStats
    ELSE IF ~ok THEN FailedStats
    ELSE IF corp \notin DOMAIN tab THEN DefaultStats
    ELSE LET limit == ParseIntOr(tab[corp].limit, DEFAULT_CORP_LIMIT)
             used == ParseIntOr(tab[corp].used, 0)
         IN [used |-> used, limit |-> limit,
             remaining |-> IF limit - used > 0 THEN limit - used ELSE 0,
             isQuotaExceeded |-> used >= limit, found |-> TRUE]

IdleCorpTask ==
    [pc |-> "idle", op |-> "none", corp |-> "none", used |-> 0, limit |-> 0,
     readOk |-> FALSE, canUse |-> FALSE, threw |-> FALSE]

\* checkCorpQuota: one read of the corps tab, then the answer
CheckCorpQuota(t, corp) ==
    /\ ctasks[t].pc = "idle"
    /\ cevents < MaxCorpCalls
    /\ cevents' = cevents + 1
    /\ \E ok \in BOOLEAN :
          LET stats == GetCorpUsageStats(corps, corpSheetId, corp, ok) IN
          ctasks' = [ctasks EXCEPT ![t] =
                        [IdleCorpTask EXCEPT !.op = "check", !.corp = corp,
                                             !.used = stats.used,
                                             !.limit = stats.limit,
                                             !.readOk = ok /\ corpSheetId,
                                             !.canUse = ~stats.isQuotaExceeded]]
    /\ UNCHANGED <<pipeVars, mcorp, quota, gem, corpSheetId, corps, norm>>

\* incrementCorpUsage up to its write: the read of getCorpUsageStats; without a
\* rowIndex it warns and returns
CorpIncRead(t, corp) ==
    /\ ctasks[t].pc = "idle"
    /\ cevents < MaxCorpCalls
    /\ cevents' = cevents + 1
    /\ \E ok \in BOOLEAN :
          LET stats == GetCorpUsageStats(corps, corpSheetId, corp, ok) IN
          ctasks' = [ctasks EXCEPT ![t] =
                        IF stats.found
                        THEN [IdleCorpTask EXCEPT !.pc = "write", !.op = "inc",
                                                  !.corp = corp, !.used = stats.used,
                                                  !.readOk = TRUE]
                        ELSE [IdleCorpTask EXCEPT !.op = "inc", !.corp = corp,
                                                  !.readOk = ok /\ corpSheetId]]
    /\ UNCHANGED <<pipeVars, mcorp, quota, gem, corpSheetId, corps, norm>>

\* incrementCorpUsage's caller after a failed update: the catch block logs
CorpWriteFailed(r) == [r EXCEPT !.pc = "idle", !.used = 0]

\* incrementCorpUsage: values.update of G<rowIndex> with (stats.used || 0) + 1
CorpIncWrite(t) ==
    /\ ctasks[t].pc = "write"
    /\ \/ /\ corps' = [corps EXCEPT ![ctasks[t].corp].used = {ctasks[t].used + 1}]
          /\ ctasks' = [ctasks EXCEPT ![t] = [@ EXCEPT !.pc = "idle", !.used = 0]]
       \/ /\ ctasks' = [ctasks EXCEPT ![t] = CorpWriteFailed(@)]
          /\ UNCHANGED corps
    /\ UNCHANGED <<pipeVars, mcorp, quota, gem, corpSheetId, cevents, norm>>

\* an admin edits a corp's Quota Limit and Current Usage cells by hand
AdminEdit(corp, limit, used) ==
    /\ corpSheetId
    /\ corp \in DOMAIN corps
    /\ corps' = [corps EXCEPT ![corp] = [limit |-> limit, used |-> used]]
    /\ UNCHANGED <<pipeVars, mcorp, quota, gem, corpSheetId, ctasks, cevents, norm>>

(***************************************************************************)
(* JSON values as parseInvoice receives them from JSON.parse                *)
(***************************************************************************)
\* A value is [t, v]: its type and its content. Numbers are fractions
\* <<n, d>> with d >= 0; d = 0 is Infinity of the sign of n (JSON.parse of
\* 1e999), and <<0, 0>> is NaN. Strings are sequences of characters.
Undef == [t |-> "undef", v |-> 0]
Null == [t |-> "null", v |-> 0]
Num(n, d) == [t |-> "num", v |-> <<n, d>>]
Whole(n) == Num(n, 1)
Str(s) == [t |-> "str", v |-> s]
Bool(b) == [t |-> "bool", v |-> b]
Obj(fields) == [t |-> "obj", v |-> fields]
Arr(items) == [t |-> "arr", v |-> items]
\* a string the code only tests and passes on, never looks into
Text(s) == [t |-> "text", v |-> s]

JsNaN == Num(0, 0)
JsInfinity == Num(1, 0)

IsNaN(x) == x.t = "num" /\ x.v[1] = 0 /\ x.v[2] = 0
IsZero(x) == x.t = "num" /\ x.v[1] = 0 /\ x.v[2] # 0
IsFinite(x) == x.t = "num" /\ x.v[2] # 0
IsNegative(x) == x.t = "num" /\ x.v[1] < 0

\* ToBoolean
Truthy(x) ==
    CASE x.t \in {"undef", "null"} -> FALSE
      [] x.t = "num" -> ~IsNaN(x) /\ ~IsZero(x)
      [] x.t = "str" -> x.v # <<>>
      [] x.t = "text" -> x.v # ""
      [] x.t = "bool" -> x.v
      [] OTHER -> TRUE

\* a || b
Or(a, b) == IF Truthy(a) THEN a ELSE b

\* a * b and a / b on numbers
Times(a, b) == Num(a.v[1] * b.v[1], a.v[2] * b.v[2])

Over(a, b) ==
    IF b.v[1] < 0
    THEN Num((0 - a.v[1]) * b.v[2], a.v[2] * (0 - b.v[1]))
    ELSE Num(a.v[1] * b.v[2], a.v[2] * b.v[1])

\* a < b on numbers, false when one of them is NaN
LessThan(a, b) ==
    /\ ~IsNaN(a) /\ ~IsNaN(b)
    /\ IF IsFinite(a) /\ IsFinite(b)
       THEN a.v[1] * b.v[2] < b.v[1] * a.v[2]
       ELSE IF ~IsFinite(a) /\ ~IsFinite(b)
            THEN a.v[1] < 0 /\ b.v[1] > 0
            ELSE IF ~IsFinite(a) THEN a.v[1] < 0 ELSE b.v[1] > 0

Digits == <<"0", "1", "2", "3", "4", "5", "6", "7", "8", "9">>
IsDigit(c) == \E i \in DOMAIN Digits : Digits[i] = c
DigitValue(c) == (CHOOSE i \in DOMAIN Digits : Digits[i] = c) - 1

RECURSIVE Pow10(_)
Pow10(k) == IF k = 0 THEN 1 ELSE 10 * Pow10(k - 1)

\* the run of digits of s from position i on: <<value with acc in front,
\* number of digits, position after the run>>
RECURSIVE TakeDigits(_, _, _, _)
TakeDigits(s, i, acc, cnt) ==
    IF i <= Len(s) /\ IsDigit(s[i])
    THEN TakeDigits(s, i + 1, acc * 10 + DigitValue(s[i]), cnt + 1)
    ELSE <<acc, cnt, i>>

RECURSIVE SkipSpaces(_, _)
SkipSpaces(s, i) == IF i <= Len(s) /\ s[i] = " " THEN SkipSpaces(s, i + 1) ELSE i

\* parseFloat of a string: leading blanks, a sign, digits, a fraction; the rest
\* is ignored. (The strings of this model hold no exponent and no "Infinity".)
ParseFloatStr(s) ==
    LET i0 == SkipSpaces(s, 1)
        signed == i0 <= Len(s) /\ s[i0] \in {"-", "+"}
        neg == signed /\ s[i0] = "-"
        i1 == IF signed THEN i0 + 1 ELSE i0
        whole == TakeDigits(s, i1, 0, 0)
        dot == whole[3] <= Len(s) /\ s[whole[3]] = "."
        frac == IF dot THEN TakeDigits(s, whole[3] + 1, whole[1], 0)
                ELSE <<whole[1], 0, whole[3]>>
    IN IF whole[2] + frac[2] = 0 THEN JsNaN
       ELSE Num(IF neg THEN 0 - frac[1] ELSE frac[1], Pow10(frac[2]))

\* the decimal digits of an integer
RECURSIVE NatToStr(_)
NatToStr(n) ==
    IF n < 10 THEN <<Digits[n + 1]>>
    ELSE Append(NatToStr(n \div 10), Digits[(n % 10) + 1])

IntToStr(n) == IF n < 0 THEN <<"-">> \o NatToStr(0 - n) ELSE NatToStr(n)

\* String(value), for the values the model passes to it
ToStr(x) ==
    CASE x.t = "str" -> x.v
      [] x.t = "undef" -> <<"u", "n", "d", "e", "f", "i", "n", "e", "d">>
      [] x.t = "null" -> <<"n", "u", "l", "l">>
      [] x.t = "bool" -> IF x.v THEN <<"t", "r", "u", "e">>
                         ELSE <<"f", "a", "l", "s", "e">>
      [] x.t = "arr" /\ x.v = <<>> -> <<>>
      [] x.t = "num" /\ x.v[2] = 1 -> IntToStr(x.v[1])
      [] x.t = "num" /\ x.v[2] = 0 /\ x.v[1] > 0 ->
             <<"I", "n", "f", "i", "n", "i", "t", "y">>
      [] x.t = "obj" -> <<"[", "o", "b", "j", "e", "c", "t", " ", "O", "b", "j",
                          "e", "c", "t", "]">>

\* parseFloat(value): a number comes back as it is
ParseFloat(x) == IF x.t = "num" THEN x ELSE ParseFloatStr(ToStr(x))

\* parseNumber: String(value).replace(/[^0-9.-]/g, ''), then parseFloat
ParseNumber(x) ==
    IF x.t \in {"null", "undef"} THEN Null
    ELSE IF x.t = "num" THEN x
    ELSE LET keep(c) == IsDigit(c) \/ c \in {".", "-"}
             num == ParseFloatStr(SelectSeq(ToStr(x), keep))
         IN IF IsNaN(num) THEN Null ELSE num

(***************************************************************************)
(* services/gemini.js: validateJsonSchema and the normalizers              *)
(***************************************************************************)
UpperCase == <<"A", "C", "D", "E", "I", "N", "R", "S", "T", "V">>
LowerCase == <<"a", "c", "d", "e", "i", "n", "r", "s", "t", "v">>

\* toLowerCase, over the letters the model's strings hold
ToLowerCase(s) ==
    [i \in DOMAIN s |->
        IF \E k \in DOMAIN UpperCase : UpperCase[k] = s[i]
        THEN LowerCase[CHOOSE k \in DOMAIN UpperCase : UpperCase[k] = s[i]]
        ELSE s[i]]

\* s.includes(pat)
Includes(s, pat) ==
    \E i \in 1..(Len(s) - Len(pat) + 1) : SubSeq(s, i, i + Len(pat) - 1) = pat

\* item.field, for an item that is neither null nor undefined
Get(x, f) == IF x.t = "obj" /\ f \in DOMAIN x.v THEN x.v[f] ELSE Undef

TypeItem == <<"i", "t", "e", "m">>
TypeDiscount == <<"d", "i", "s", "c", "o", "u", "n", "t">>
TypeCredit == <<"c", "r", "e", "d", "i", "t">>
TypeService == <<"s", "e", "r", "v", "i", "c", "e">>
TypeVat == <<"v", "a", "t">>
\* const validTypes = ['item', 'discount', 'credit', 'service', 'vat']
ValidTypes == {TypeItem, TypeDiscount, TypeCredit, TypeService, TypeVat}

\* the keywords of a credit line
CreditWords == {<<"c", "n">>, TypeCredit, <<"r", "e", "f", "u", "n", "d">>}

\* a TypeError was thrown
Thrown == [threw |-> TRUE]

\* the line type taken as given, whatever it says
ResolveLineType_Unchecked(lowered) == IF lowered = <<>> THEN TypeItem ELSE lowered

\* item.lineType?.toLowerCase() || 'item', then 'item' unless it is a valid type
ResolveLineType(lowered) ==
    LET given == IF lowered = <<>> THEN TypeItem ELSE lowered IN
    IF given \in ValidTypes THEN given ELSE TypeItem

\* unitPrice and amount: each made from the other and the quantity when only
\* one of them is given, amount 0 when neither is
ItemAmounts(rawAmount, rawUnitPrice, quantity) ==
    IF rawAmount # Null /\ rawUnitPrice = Null
    THEN [unitPrice |-> Over(rawAmount, quantity), amount |-> rawAmount]
    ELSE IF rawUnitPrice # Null /\ rawAmount = Null
         THEN [unitPrice |-> rawUnitPrice, amount |-> Times(rawUnitPrice, quantity)]
         ELSE IF rawUnitPrice = Null /\ rawAmount = Null
              THEN [unitPrice |-> rawUnitPrice, amount |-> Whole(0)]
              ELSE [unitPrice |-> rawUnitPrice, amount |-> rawAmount]

\* lineType === 'item' && amount !== null && amount < 0
NegativeItem(lineType, amount) ==
    lineType = TypeItem /\ amount # Null /\ IsNegative(amount)

\* a negative item is a credit when its description names one, else a discount
Reclassify(lineType, amount, desc) ==
    IF ~NegativeItem(lineType, amount) THEN lineType
    ELSE IF \E w \in CreditWords : Includes(desc, w) THEN TypeCredit
         ELSE TypeDiscount

\* the callback of items.map from the line type on; lineType is the type after
\* the validTypes test
TypedItem(index, lineType, description, quantity, amounts) ==
    IF /\ NegativeItem(lineType, amounts.amount)
       /\ Truthy(description) /\ description.t # "str"
    THEN Thrown
    ELSE [threw |-> FALSE, itemNumber |-> index,
          lineType |-> Reclassify(lineType, amounts.amount,
                                  IF Truthy(description)
                                  THEN ToLowerCase(description.v) ELSE <<>>),
          description |-> Or(description, Str(<<>>)), quantity |-> quantity,
          unitPrice |-> amounts.unitPrice, amount |-> Or(amounts.amount, Whole(0))]

\* the callback of items.map after the numbers are parsed
ParsedItem(index, rawType, description, quantity, rawAmount, rawUnitPrice) ==
    IF rawType.t \notin {"null", "undef", "str"} THEN Thrown
    ELSE TypedItem(index,
                   ResolveLineType(IF rawType.t = "str"
                                   THEN ToLowerCase(rawType.v) ELSE <<>>),
                   description, quantity,
                   ItemAmounts(rawAmount, rawUnitPrice, quantity))

\* the callback of items.map in normalizeLineItems: the item, or Thrown
NormalizeItem(item, index) ==
    IF item.t \in {"null", "undef"} THEN Thrown
    ELSE ParsedItem(index, Get(item, "lineType"), Get(item, "description"),
                    Or(ParseNumber(Get(item, "quantity")), Whole(1)),
                    ParseNumber(Get(item, "amount")),
                    ParseNumber(Get(item, "unitPrice")))

\* .filter(item => item.description && item.amount !== 0)
KeepItem(it) == Truthy(it.description) /\ ~IsZero(it.amount)

\* the mapped items filtered, or Thrown when the callback threw on one of them
FilterItems(mapped) ==
    IF \E i \in DOMAIN mapped : mapped[i].threw THEN Thrown
    ELSE [threw |-> FALSE, items |-> SelectSeq(mapped, KeepItem)]

\* normalizeLineItems: the result, or Thrown
NormalizeLineItems(items) ==
    IF items.t # "arr" THEN [threw |-> FALSE, items |-> <<>>]
    ELSE FilterItems([i \in DOMAIN items.v |-> NormalizeItem(items.v[i], i)])

\* validateJsonSchema: the errors it collects, or Thrown when data is null
ValidateJsonSchema(data) ==
    IF data.t \in {"null", "undef"} THEN Thrown
    ELSE
    LET grandTotal == Get(data, "grandTotal")
        confidence == Get(data, "confidence")
        lineItems == Get(data, "lineItems")
        missing == {f \in {"grandTotal", "confidence"} :
                       Get(data, f).t \in {"undef", "null"}}
        notArray == IF Truthy(lineItems) /\ lineItems.t # "arr"
                    THEN {"lineItems must be an array"} ELSE {}
        inRange == /\ confidence.t = "num"
                   /\ ~LessThan(confidence, Whole(0))
                   /\ ~LessThan(Whole(1), confidence)
        badConfidence == IF ~inRange /\ IsNaN(ParseFloat(confidence))
                         THEN {"confidence must be a number"} ELSE {}
        badTotal == IF grandTotal.t \notin {"undef", "null"}
                       /\ ParseNumber(grandTotal) = Null
                    THEN {"grandTotal must be a valid number"} ELSE {}
        errors == missing \cup notArray \cup badConfidence \cup badTotal
    IN [threw |-> FALSE, isValid |-> errors = {}, errors |-> errors]

\* /^\d{4}-\d{2}-\d{2}$/.test(s)
IsIsoDate(s) ==
    /\ Len(s) = 10
    /\ \A i \in {1, 2, 3, 4, 6, 7, 9, 10} : IsDigit(s[i])
    /\ s[5] = "-" /\ s[8] = "-"

\* normalizeDate. parsed is what new Date(dateStr) made of a value that is not
\* in ISO format: Null when the date is invalid, else the date part of its
\* toISOString()
NormalizeDate(dateStr, parsed) ==
    IF ~Truthy(dateStr) THEN Null
    ELSE IF IsIsoDate(ToStr(dateStr)) THEN dateStr
    ELSE IF parsed # Null THEN parsed
    ELSE Str(<<"'">> \o ToStr(dateStr))

\* the first run of 13 digits of s, position 0 when there is none
TaxIdAt(s) ==
    LET hits == {i \in 1..(Len(s) - 12) : \A k \in 0..12 : IsDigit(s[i + k])} IN
    IF hits = {} THEN 0 ELSE CHOOSE i \in hits : \A j \in hits : i <= j

\* extractTaxId
ExtractTaxId(text) ==
    IF ~Truthy(text) THEN Null
    ELSE LET s == ToStr(text) IN
         IF TaxIdAt(s) = 0 THEN Null
         ELSE Str(SubSeq(s, TaxIdAt(s), TaxIdAt(s) + 12))

\* text.replace(/[\s\-\.]/g, '')
StripSeparators(s) == SelectSeq(s, LAMBDA c : c \notin {" ", "-", "."})

\* /^\d+$/.test(s)
AllDigits(s) == s # <<>> /\ \A i \in DOMAIN s : IsDigit(s[i])

\* src/services/ocr.js, extractTaxId of a string: the separators are removed
\* first; without a run of 13 digits the cleaned text comes back when it is
\* ten or more digits, and else the text itself
ExtractTaxIdOcr(text) ==
    IF ~Truthy(text) THEN Null
    ELSE IF TaxIdAt(StripSeparators(text.v)) # 0
         THEN Str(SubSeq(StripSeparators(text.v), TaxIdAt(StripSeparators(text.v)),
                         TaxIdAt(StripSeparators(text.v)) + 12))
         ELSE IF AllDigits(StripSeparators(text.v))
                 /\ Len(StripSeparators(text.v)) >= 10
              THEN Str(StripSeparators(text.v))
              ELSE text

ValidDocTypes == {"Tax Invoice", "Receipt", "Credit Note", "Quotation"}
ValidCategories == {"Food", "Travel", "Office", "Marketing", "Utilities", "Other"}

\* data.field || dflt, then dflt again unless the value is one of valid
OneOf(x, valid, dflt) ==
    LET given == Or(x, Text(dflt)) IN
    IF given.t = "text" /\ given.v \in valid THEN given ELSE Text(dflt)

\* Math.min(1, Math.max(0, x))
Clamp01(x) ==
    IF LessThan(x, Whole(0)) THEN Whole(0)
    ELSE IF LessThan(Whole(1), x) THEN Whole(1) ELSE x

\* vatAmount taken from the payload whatever the line items are
VatAmount_Always(hasVatLineItem, raw) == ParseNumber(raw)

\* hasVatLineItem ? 0 : parseNumber(data.vatAmount)
VatAmount(hasVatLineItem, raw) ==
    IF hasVatLineItem THEN Whole(0) ELSE ParseNumber(raw)

\* lineItems.some(item => item.lineType === 'vat')
HasVatLineItem(items) == \E i \in DOMAIN items : items[i].lineType = TypeVat

\* normalizeInvoiceData after normalizeLineItems returned lineItems
InvoiceWith(data, parsed, lineItems) ==
    IF lineItems.threw THEN Thrown
    ELSE [threw |-> FALSE,
          documentType |-> OneOf(Get(data, "documentType"), ValidDocTypes, "Receipt"),
          invoiceNumber |-> Or(Get(data, "invoiceNumber"), Null),
          invoiceDate |-> NormalizeDate(Get(data, "invoiceDate"), parsed),
          sellerName |-> Or(Get(data, "sellerName"), Null),
          sellerTaxId |-> ExtractTaxId(Get(data, "sellerTaxId")),
          expenseCategory |-> OneOf(Get(data, "expenseCategory"), ValidCategories,
                                    "Other"),
          lineItems |-> lineItems.items,
          subtotal |-> ParseNumber(Get(data, "subtotal")),
          vatAmount |-> VatAmount(HasVatLineItem(lineItems.items),
                                  Get(data, "vatAmount")),
          grandTotal |-> Or(ParseNumber(Get(data, "grandTotal")), Whole(0)),
          confidence |-> Clamp01(Or(ParseFloat(Get(data, "confidence")), Num(1, 2)))]

\* normalizeInvoiceData: the invoice, or Thrown
NormalizeInvoiceData(data, parsed) ==
    IF data.t \in {"null", "undef"} THEN Thrown
    ELSE InvoiceWith(data, parsed,
                     NormalizeLineItems(Or(Get(data, "lineItems"), Arr(<<>>))))

\* parseInvoice after parseJsonResponse: validation warns, normalization
\* decides; an exception of either leaves the try block
AfterValidation(validation, normalized) ==
    IF validation.threw
    THEN [threw |-> TRUE, warned |-> FALSE, invoice |-> Thrown]
    ELSE IF normalized.threw
         THEN [threw |-> TRUE, warned |-> ~validation.isValid, invoice |-> Thrown]
         ELSE [threw |-> FALSE, warned |-> ~validation.isValid,
               invoice |-> normalized]

\* number.toFixed(2), for a finite number that is not negative
ToFixed2(x) ==
    LET cents == (200 * x.v[1] + x.v[2]) \div (2 * x.v[2]) IN
    NatToStr(cents \div 100) \o <<".">>
        \o <<Digits[((cents \div 10) % 10) + 1], Digits[(cents % 10) + 1]>>

Blank == Str(<<>>)

\* data.field of an invoice
Field(data, f) == IF f \in DOMAIN data THEN data[f] ELSE Undef

\* formatForSheets with the Image URL cell left out of the totals
TotalsData_Short(data, imageUrl) ==
    <<Or(Field(data, "subtotal"), Blank), Or(Field(data, "vatAmount"), Blank),
      Or(Field(data, "grandTotal"), Blank),
      Str(ToFixed2(Field(data, "confidence")))>>

\* formatForSheets: totalsData (columns N-R)
TotalsData(data, imageUrl) ==
    <<Or(Field(data, "subtotal"), Blank), Or(Field(data, "vatAmount"), Blank),
      Or(Field(data, "grandTotal"), Blank), Or(imageUrl, Blank),
      Str(ToFixed2(Field(data, "confidence")))>>

\* formatForSheets: headerData (columns A-G)
HeaderData(data, timestamp) ==
    <<timestamp, Or(Field(data, "invoiceDate"), Blank),
      Or(Field(data, "invoiceNumber"), Blank),
      Or(Field(data, "documentType"), Text("Receipt")),
      Or(Field(data, "sellerName"), Blank), Or(Field(data, "sellerTaxId"), Blank),
      Or(Field(data, "expenseCategory"), Text("Other"))>>

\* formatForSheets: the item cells (columns H-M) of one line item
ItemCells(item) ==
    <<Str(IntToStr(item.itemNumber)), Str(item.lineType),
      Or(item.description, Blank), Or(item.quantity, Whole(1)),
      Or(item.unitPrice, Blank), Or(item.amount, Blank)>>

BlankItemCells == <<Blank, Blank, Blank, Blank, Blank, Blank>>

\* formatForSheets (18-column layout A-R)
FormatForSheets(data, imageUrl, timestamp) ==
    IF Len(data.lineItems) = 0
    THEN <<HeaderData(data, timestamp) \o BlankItemCells \o TotalsData(data, imageUrl)>>
    ELSE [i \in DOMAIN data.lineItems |->
             HeaderData(data, timestamp) \o ItemCells(data.lineItems[i])
                 \o TotalsData(data, imageUrl)]

\* getSheetHeaders (18 columns: A-R)
GetSheetHeaders ==
    <<"Processed At", "Invoice Date", "Invoice Number", "Document Type",
      "Seller Name", "Seller Tax ID", "Expense Category", "Item #", "Line Type",
      "Description", "Quantity", "Unit Price", "Amount", "Subtotal", "VAT 7%",
      "Grand Total", "Image URL", "Confidence">>

\* src/services/gemini.js, the older formatForSheets (22-column layout A-V)
FormatForSheetsV1(data, imageUrl, timestamp, userInfo) ==
    LET headerData ==
            <<timestamp, Or(Field(data, "invoiceNumber"), Blank),
              Or(Field(data, "invoiceDate"), Blank),
              Or(Field(data, "sellerName"), Blank),
              Or(Field(data, "sellerTaxId"), Blank),
              Or(Field(data, "sellerBranch"), Blank),
              Or(Field(data, "buyerName"), Blank),
              Or(Field(data, "buyerTaxId"), Blank)>>
        totalsData ==
            <<Or(Field(data, "subtotal"), Blank), Or(Field(data, "vatAmount"), Blank),
              Or(Field(data, "grandTotal"), Blank), Or(imageUrl, Blank), Blank,
              Or(Field(userInfo, "userId"), Blank),
              Or(Field(userInfo, "displayName"), Blank),
              Str(ToFixed2(Field(data, "confidence")))>>
        itemCells(item) ==
            <<Str(IntToStr(item.itemNumber)), Str(item.lineType),
              Or(item.description, Blank), Or(item.quantity, Blank),
              Or(item.unitPrice, Blank), Or(item.amount, Blank)>>
    IN IF Len(data.lineItems) = 0
       THEN <<headerData \o BlankItemCells \o totalsData>>
       ELSE [i \in DOMAIN data.lineItems |->
                headerData \o itemCells(data.lineItems[i]) \o totalsData]

\* src/services/gemini.js, the older getSheetHeaders (22 columns: A-V)
GetSheetHeadersV1 ==
    <<"Processed At", "Invoice Number", "Invoice Date", "Seller Name",
      "Seller Tax ID", "Seller Branch", "Buyer Name", "Buyer Tax ID", "Item #",
      "Line Type", "Item Description", "Quantity", "Unit Price", "Line Amount",
      "Subtotal", "VAT 7%", "Grand Total", "Image URL", "Status", "User ID",
      "User Name", "Confidence">>

(***************************************************************************)
(* the payloads a model response can parse to                              *)
(***************************************************************************)
NoFields == [f \in {} |-> Undef]

IsoDate == <<"2", "0", "2", "6", "-", "0", "1", "-", "1", "1">>
TaxDigits == <<"0", "1", "0", "5", "5", "5", "0", "0", "0", "1", "2", "3", "4">>

\* numbers and amounts as a response may spell them
ScalarVals ==
    {Undef, Null, Whole(0), Whole(0 - 2), Whole(3), Num(1, 2), JsInfinity, Str(<<>>),
     Str(<<"a">>), Str(<<"1", "2">>), Str(<<"-", "3">>), Str(<<"0", ".", "9">>),
     Str(<<"1", ",", "5", "0", "0", ".", "5">>), Str(<<"-">>), Bool(TRUE),
     Obj(NoFields)}

DateVals ==
    {Undef, Null, Str(<<>>), Str(IsoDate), Str(<<"'">> \o IsoDate),
     Str(<<"1", "1", "/", "1">>), Str(<<"'", "a">>), Whole(5), JsInfinity}

\* the 13 digits with hyphens between them, as receipts print them
DashedTaxId ==
    <<"0", "-", "1", "0", "5", "5", "-", "5", "0", "0", "0", "1", "-", "2", "3",
      "-", "4">>

TaxVals ==
    {Undef, Null, Str(TaxDigits), Str(<<"a">> \o TaxDigits \o <<"9">>),
     Str(SubSeq(TaxDigits, 1, 12)), Whole(5), Str(DashedTaxId),
     Str(<<"a", "b", "c">>), Str(<<>>)}

TextVals == {Undef, Null, Text("Tax Invoice"), Text("Food"), Text("bogus"), Whole(5)}

Item(d, a, u, q, l) ==
    Obj([description |-> d, amount |-> a, unitPrice |-> u, quantity |-> q,
         lineType |-> l])

Tea == Str(<<"T", "e", "a">>)

DescVals ==
    {Undef, Str(<<>>), Tea, Str(<<"a", "C", "N", "e">>),
     Str(<<"R", "e", "f", "u", "n", "d">>), Whole(5)}

AmountVals ==
    {Undef, Whole(0), Whole(0 - 2), Whole(3), Str(<<"-", "1">>), Str(<<"a">>), JsInfinity}

TypeVals ==
    {Undef, Str(<<>>), Str(<<"V", "A", "T">>), Str(TypeItem), Str(TypeCredit),
     Str(<<"D", "i", "s", "c">>), Whole(1)}

PriceAndQuantity ==
    {<<Undef, Undef>>, <<Whole(2), Undef>>, <<Whole(0 - 2), Whole(3)>>, <<Whole(2), Whole(0)>>}

\* every line item the values above make
ItemVals ==
    {Item(d, a, pq[1], pq[2], l) :
        d \in DescVals, a \in AmountVals, pq \in PriceAndQuantity, l \in TypeVals}

\* the entries the longer lists are made of: a null and a number in place of
\* an item, items that survive, items that are dropped, a VAT line, a refund,
\* an item whose lineType is a number
SampleItems ==
    {Null, Whole(5),
     Item(Tea, Whole(3), Undef, Undef, Undef),
     Item(Str(<<>>), Whole(3), Undef, Undef, Undef),
     Item(Tea, Whole(0), Undef, Undef, Undef),
     Item(Str(<<"V", "A", "T">>), Whole(3), Undef, Undef, Str(<<"V", "A", "T">>)),
     Item(Str(<<"R", "e", "f", "u", "n", "d">>), Whole(0 - 2), Undef, Undef, Undef),
     Item(Tea, Whole(3), Undef, Undef, Whole(1))}

ItemLists == UNION {[1..n -> SampleItems] : n \in 0..MaxItems}

VatVals == {Undef, Whole(7), Str(<<"7">>)}

NumberFields == {"subtotal", "vatAmount", "grandTotal", "confidence"}
TextFields == {"documentType", "invoiceNumber", "sellerName", "expenseCategory"}
AllFields ==
    NumberFields \cup TextFields \cup {"invoiceDate", "sellerTaxId", "lineItems"}

\* an object with every field missing
BaseFields == [f \in AllFields |-> Undef]

\* JSON.parse results: null, a bare number, an array, and objects in which one
\* field takes every value of its kind, or lineItems and vatAmount together
Payloads ==
    {Null, Whole(5), Arr(<<>>), Obj(NoFields)}
    \cup {Obj([BaseFields EXCEPT ![f] = v]) : f \in NumberFields, v \in ScalarVals}
    \cup {Obj([BaseFields EXCEPT ![f] = v]) : f \in TextFields, v \in TextVals}
    \cup {Obj([BaseFields EXCEPT !.invoiceDate = v]) : v \in DateVals}
    \cup {Obj([BaseFields EXCEPT !.sellerTaxId = v]) : v \in TaxVals}
    \cup {Obj([BaseFields EXCEPT !.lineItems = v]) :
              v \in {Null, Str(<<"a">>), Whole(5), Obj(NoFields)}}
    \cup {Obj([BaseFields EXCEPT !.lineItems = Arr(<<it>>), !.grandTotal = Whole(3),
                                 !.confidence = Num(1, 2)]) : it \in ItemVals}
    \cup {Obj([BaseFields EXCEPT !.lineItems = Arr(l), !.vatAmount = v]) :
              l \in ItemLists, v \in VatVals}

\* what new Date(x) can come to for a value that is not in ISO format: Null for
\* an invalid date, else the date part of toISOString(). How a string that is
\* not in a standard format parses is left to the implementation.
NewDate(x) ==
    IF x.t = "num" THEN (IF IsFinite(x) THEN {Str(IsoDate)} ELSE {Null})
    ELSE IF x.t = "str" /\ x.v # <<>> /\ ~IsIsoDate(x.v) THEN {Null, Str(IsoDate)}
    ELSE {Null}

NoResult == [threw |-> FALSE, warned |-> FALSE, invoice |-> Thrown]

\* no response is being handled
IdleNorm ==
    [pc |-> "idle", raw |-> Undef, res |-> NoResult, rows |-> <<>>,
     rowsV1 |-> <<>>, again |-> Thrown, taxId |-> Undef]

\* parseJsonResponse returned the payload p
ReceiveResponse(p) ==
    /\ norm.pc = "idle"
    /\ norm' = [norm EXCEPT !.pc = "parsed", !.raw = p]
    /\ UNCHANGED <<pipeVars, mcorp, quota, gem, corpVars>>

\* parseInvoice from validateJsonSchema to its return, or to the catch block
ValidateAndNormalize ==
    /\ norm.pc = "parsed"
    /\ \E parsed \in NewDate(Get(norm.raw, "invoiceDate")) :
          LET res == AfterValidation(ValidateJsonSchema(norm.raw),
                                     NormalizeInvoiceData(norm.raw, parsed))
          IN norm' = [norm EXCEPT !.pc = IF res.threw THEN "thrown" ELSE "returned",
                                  !.res = res]
    /\ UNCHANGED <<pipeVars, mcorp, quota, gem, corpVars>>

\* src/services/ocr.js: extractTaxId applied to the text of the tax id field
OcrExtractTaxId ==
    /\ norm.pc = "parsed"
    /\ Get(norm.raw, "sellerTaxId").t = "str"
    /\ norm' = [norm EXCEPT !.pc = "extracted",
                            !.taxId = ExtractTaxIdOcr(Get(norm.raw, "sellerTaxId"))]
    /\ UNCHANGED <<pipeVars, mcorp, quota, gem, corpVars>>

SampleUser == [userId |-> Text("U1"), displayName |-> Text("Ann")]

\* the caller formats the invoice parseInvoice returned
Format ==
    /\ norm.pc = "returned"
    /\ norm' = [norm EXCEPT
                  !.pc = "formatted",
                  !.rows = FormatForSheets(norm.res.invoice, Text("url"), Text("ts")),
                  !.rowsV1 = FormatForSheetsV1(norm.res.invoice, Text("url"),
                                               Text("ts"), SampleUser)]
    /\ UNCHANGED <<pipeVars, mcorp, quota, gem, corpVars>>

\* the date, tax id and amounts of an invoice as a payload
ScalarsOf(inv) ==
    Obj([BaseFields EXCEPT !.invoiceDate = inv.invoiceDate,
                           !.sellerTaxId = inv.sellerTaxId,
                           !.subtotal = inv.subtotal,
                           !.vatAmount = inv.vatAmount,
                           !.grandTotal = inv.grandTotal])

\* normalizeInvoiceData applied to the scalars of an invoice it returned
Renormalize ==
    /\ norm.pc = "returned"
    /\ \E parsed \in NewDate(norm.res.invoice.invoiceDate) :
          norm' = [norm EXCEPT
                     !.pc = "renormalized",
                     !.again = NormalizeInvoiceData(ScalarsOf(norm.res.invoice), parsed)]
    /\ UNCHANGED <<pipeVars, mcorp, quota, gem, corpVars>>

(***************************************************************************)
(* the quota gate as a function of count and limit                         *)
(***************************************************************************)
\* the counts a read can return and the limits a deployment can set
UsedRange == (0 - 1)..MaxUsed \cup {DEFAULT_MONTHLY_LIMIT - 1,
                                    DEFAULT_MONTHLY_LIMIT, DEFAULT_MONTHLY_LIMIT + 1}
LimitEnvRange == (0 - 1)..MaxLimit

\* checkOCRAvailability and getUsageStats for a count getUsageCount returned
\* in a deployment whose OCR_MONTHLY_LIMIT is env
QuotaCall(used, env) ==
    /\ quota' = [called |-> TRUE, used |-> used, limit |-> MonthlyLimit(env),
                 avail |-> CheckOCRAvailability(used, MonthlyLimit(env)),
                 stats |-> GetUsageStats(used, MonthlyLimit(env))]
    /\ UNCHANGED <<pipeVars, mcorp, gem, corpVars, norm>>

(***************************************************************************)
(* The multi-corp webhook handler and the users tab of the config sheet.   *)
(* mcorp: dir, the users tab (a record per user: status and corp, status   *)
(* "none" for a user without a row); corpTab, the status of each corp of   *)
(* the corps tab ("none" without a row); admins, ADMIN_USER_IDS; start,    *)
(* the users tab at the start; extracted, the users one of whose images    *)
(* reached parseInvoice; reply, the last reply; n, the events handled.     *)
(***************************************************************************)
NoUser == [status |-> "none", corp |-> ""]

\* the rows an admin can have prepared for a user: none, a pre-approved one
\* (status pending or left empty), an active one, a blocked one
StartUsers ==
    {NoUser, [status |-> "pending", corp |-> ""], [status |-> "", corp |-> ""],
     [status |-> "active", corp |-> "acme"], [status |-> "blocked", corp |-> "acme"]}

NoChat ==
    [dir |-> [u \in Users |-> NoUser], corpTab |-> [c \in CorpNames |-> "none"],
     admins |-> {}, start |-> [u \in Users |-> NoUser], extracted |-> {},
     reply |-> "none", n |-> 0]

StartChats ==
    {[NoChat EXCEPT !.dir = d, !.start = d, !.corpTab = t, !.admins = a] :
        d \in [Users -> StartUsers],
        t \in {[acme |-> "active", bolt |-> b] : b \in {"active", "inactive", "none"}},
        a \in {{}, {"u1"}}}

\* getUserByLineId: null without a row, `status: row[3] || 'pending'`
GetUserByLineId(dir, u) ==
    IF dir[u].status = "none" THEN Null
    ELSE [t |-> "user", corp |-> dir[u].corp,
          status |-> IF dir[u].status = "" THEN "pending" ELSE dir[u].status]

\* updateUser(user.rowIndex, data): `data.corp || ''`, `data.status || 'pending'`
UpdateUser(dir, u, corp, status) ==
    [dir EXCEPT ![u] = [status |-> IF status = "" THEN "pending" ELSE status,
                        corp |-> corp]]

\* getCorpConfig: the corp's row whatever its status, null without a row
GetCorpConfig(tab, c) ==
    IF c \notin DOMAIN tab \/ tab[c] = "none" THEN Null
    ELSE [t |-> "corp", status |-> tab[c]]

\* getAllCorps: the active corps
GetAllCorps(tab) == {c \in DOMAIN tab : tab[c] = "active"}

\* isAdmin: ADMIN_USER_IDS includes the user
IsAdmin(admins, u) == u \in admins

\* the event is handled: the reply and the count
Replied(m, r) == [m EXCEPT !.reply = r, !.n = m.n + 1]

\* handleFollowEvent: a pending user is offered the corps, and updateUser
\* writes the row back with the display name
HandleFollowEvent(u) ==
    /\ mcorp.n < MaxEvents
    /\ LET user == GetUserByLineId(mcorp.dir, u) IN
       mcorp' =
           IF user = Null THEN Replied(mcorp, "unauthorized")
           ELSE IF user.status = "pending"
           THEN IF GetAllCorps(mcorp.corpTab) = {} THEN Replied(mcorp, "noCorps")
                ELSE Replied([mcorp EXCEPT !.dir = UpdateUser(mcorp.dir, u, user.corp,
                                                              user.status)],
                             "selectCorp")
           ELSE IF user.status = "active" THEN Replied(mcorp, "welcomeBack")
           ELSE Replied(mcorp, "notActive")
    /\ UNCHANGED <<pipeVars, quota, gem, corpVars, norm>>

\* handlePostbackEvent, data = 'select_corp=' + c: the corp must have a row;
\* the user's row, when there is one, is rewritten with the corp and 'active'
HandleSelectCorp(u, c) ==
    /\ mcorp.n < MaxEvents
    /\ LET user == GetUserByLineId(mcorp.dir, u) IN
       mcorp' =
           IF GetCorpConfig(mcorp.corpTab, c) = Null THEN Replied(mcorp, "invalidCorp")
           ELSE IF user # Null
           THEN Replied([mcorp EXCEPT !.dir = UpdateUser(mcorp.dir, u, c, "active")],
                        "registered")
           ELSE Replied(mcorp, mcorp.reply)
    /\ UNCHANGED <<pipeVars, quota, gem, corpVars, norm>>

\* handleTextMessage: the usage command, the admin command, anything else
HandleTextMessage(u, text) ==
    /\ mcorp.n < MaxEvents
    /\ LET user == GetUserByLineId(mcorp.dir, u) IN
       mcorp' =
           IF text = "usage" THEN Replied(mcorp, "usage")
           ELSE IF text = "ADMIN change corp" /\ IsAdmin(mcorp.admins, u)
           THEN Replied(mcorp, "adminSelect")
           ELSE IF user = Null \/ user.status # "active"
           THEN Replied(mcorp, "unauthorized")
           ELSE Replied(mcorp, "help")
    /\ UNCHANGED <<pipeVars, quota, gem, corpVars, norm>>

\* handleEvent for an image: the user, the corp and the quota are checked,
\* then the image goes to parseInvoice
HandleImage(u, canUseOCR) ==
    /\ mcorp.n < MaxEvents
    /\ LET user == GetUserByLineId(mcorp.dir, u)
           corpConfig == IF user = Null THEN Null
                         ELSE GetCorpConfig(mcorp.corpTab, user.corp)
       IN
       mcorp' =
           IF user = Null \/ user.status # "active" \/ user.corp = ""
           THEN Replied(mcorp, "unauthorized")
           ELSE IF corpConfig = Null \/ corpConfig.status # "active"
           THEN Replied(mcorp, "corpInactive")
           ELSE IF ~canUseOCR THEN Replied(mcorp, "quota")
           ELSE Replied([mcorp EXCEPT !.extracted = mcorp.extracted \cup {u}],
                        "processing")
    /\ UNCHANGED <<pipeVars, quota, gem, corpVars, norm>>

(***************************************************************************)
(* What has happened so far, kept to state the properties of the ledger:   *)
(* incs, the incrementUsage calls that have returned, by the period key    *)
(* they computed, on top of the count the store held at the start;          *)
(* storeFailed, whether a request to the store has failed; lastInc, the    *)
(* value the last incrementUsage returned while no other one was running   *)
(* and the period was the one it computed (0 once another one starts or    *)
(* the month changes); fresh, the getUsageCount calls started since then   *)
(* and still reading; reported, the count getUsageCount returned last;     *)
(* calls, whether the calls are recorded at all (they are where the tasks  *)
(* are the callers of usage.js; storeFailed is recorded everywhere).       *)
(***************************************************************************)
NoHist(rs, calls) ==
    [incs |-> [m \in 1..MaxMonth |-> StoredCount(rs, m)], storeFailed |-> FALSE,
     lastInc |-> 0, fresh |-> {}, reported |-> 0 - 1, calls |-> calls]

\* getUsageCount of task t went to the store
Asked(h, t) == IF h.calls /\ h.lastInc > 0 THEN [h EXCEPT !.fresh = h.fresh \cup {t}] ELSE h

\* getUsageCount of task t returned c
Answered(h, t, c) ==
    IF h.calls THEN [h EXCEPT !.reported = c, !.fresh = h.fresh \ {t}] ELSE h

\* a request of task t to the store failed
StoreFailed(h, t) == [h EXCEPT !.storeFailed = TRUE]

\* an incrementUsage call started
IncStarted(h) == [h EXCEPT !.lastInc = 0, !.fresh = {}]

\* the incrementUsage call of task t, with period key cur, returned n; alone
\* says that no other incrementUsage call was running and cur is the month
IncReturned(h, cur, n, alone) ==
    IF h.calls
    THEN [h EXCEPT !.incs[cur] = h.incs[cur] + 1,
                   !.lastInc = IF alone THEN n ELSE 0,
                   !.fresh = {}]
    ELSE h

(***************************************************************************)
(* A task is one caller: a webhook event in handleEvent (kind image, pdf   *)
(* or retry), or a direct call of an exported function of usage.js (kind   *)
(* check: checkOCRAvailability, kind inc: incrementUsage).                 *)
(***************************************************************************)
IdleTask ==
    [pc |-> "idle", kind |-> "none", user |-> "none", cur |-> 0, count |-> 0,
     readOk |-> FALSE, rowIndex |-> 0, hasBuffer |-> FALSE, checkedOk |-> FALSE,
     parsed |-> FALSE, incCalled |-> FALSE, incRet |-> 0, result |-> "none"]

\* the call returned, or the handler's catch reported the error: locals die
Done(r, res) == [IdleTask EXCEPT !.result = res]

\* the caller's next step once checkOCRAvailability has answered for count c:
\* processDocument goes on only when canUseOCR
AfterCheck(r, c) ==
    LET a == CheckOCRAvailability(c, MONTHLY_LIMIT) IN
    IF r.kind = "check"
    THEN Done(r, IF a.canUseOCR THEN "allowed" ELSE "quota")
    ELSE IF a.canUseOCR
    THEN [r EXCEPT !.pc = "download", !.checkedOk = TRUE, !.count = 0,
                   !.readOk = FALSE, !.cur = 0]
    ELSE Done(r, "quota")

\* the caller's next step once incrementUsage has returned n
AfterInc(r, n) ==
    IF r.kind = "inc"
    THEN [Done(r, "returned") EXCEPT !.incRet = n]
    ELSE [r EXCEPT !.pc = "finish", !.incRet = n, !.cur = 0, !.count = 0,
                   !.rowIndex = 0]

\* the retry cache after the catch block of the handler that ran r:
\* processDocument caches the buffer it holds, the retry handler caches nothing
CatchCache(r, rc, t) ==
    IF r.kind \in DocKinds /\ r.hasBuffer THEN [rc EXCEPT ![r.user] = t] ELSE rc

Set(t, r) == tasks' = [tasks EXCEPT ![t] = r]

\* a task other than t is inside incrementUsage
IncRunning(ts, t) ==
    \E u \in DOMAIN ts \ {t} : ts[u].pc \in {"incRead", "incWrite", "incDone", "incCatch"}

\* getUsageCount up to its first await: answer from the cache, or read the store
StartCheck(r) ==
    IF CacheValid(usageCache, month, now)
    THEN AfterCheck(r, usageCache.count)
    ELSE [r EXCEPT !.pc = "usageRead", !.cur = month]

\* handleEvent for an image or a PDF file: processDocument
ReceiveDocument(t, kind, user) ==
    /\ tasks[t].pc = "idle"
    /\ events < MaxEvents
    /\ events' = events + 1
    /\ Set(t, StartCheck([IdleTask EXCEPT !.kind = kind, !.user = user]))
    /\ UNCHANGED <<month, now, sheetExists, rows, usageCache, retryCache, lastLog>>
    /\ hist' = IF CacheValid(usageCache, month, now)
               THEN Answered(hist, t, usageCache.count) ELSE Asked(hist, t)
    /\ UNCHANGED offPipe

\* handlePostbackEvent, data = 'retry_ocr': no cached document, or
\* processWithCachedBuffer on the cached one
RetryStart(r, cached) ==
    IF cached = 0 THEN Done(r, "noimage")
    ELSE [r EXCEPT !.pc = "download", !.hasBuffer = TRUE]

ReceiveRetry(t, user) ==
    /\ tasks[t].pc = "idle"
    /\ events < MaxEvents
    /\ events' = events + 1
    /\ Set(t, RetryStart([IdleTask EXCEPT !.kind = "retry", !.user = user],
                         retryCache[user]))
    /\ UNCHANGED <<month, now, sheetExists, rows, usageCache, retryCache, lastLog>>
    /\ UNCHANGED hist
    /\ UNCHANGED offPipe

\* a caller of the exported checkOCRAvailability
CallCheck(t) ==
    /\ tasks[t].pc = "idle"
    /\ events < MaxCalls
    /\ events' = events + 1
    /\ Set(t, StartCheck([IdleTask EXCEPT !.kind = "check"]))
    /\ UNCHANGED <<month, now, sheetExists, rows, usageCache, retryCache, lastLog>>
    /\ hist' = IF CacheValid(usageCache, month, now)
               THEN Answered(hist, t, usageCache.count) ELSE Asked(hist, t)
    /\ UNCHANGED offPipe

\* incrementUsage up to its first await: getCurrentMonthKey, then the read
StartInc(r, m) == [r EXCEPT !.pc = "incRead", !.incCalled = TRUE, !.cur = m]

\* a caller of the exported incrementUsage
CallIncrement(t) ==
    /\ tasks[t].pc = "idle"
    /\ events < MaxCalls
    /\ events' = events + 1
    /\ Set(t, StartInc([IdleTask EXCEPT !.kind = "inc"], month))
    /\ UNCHANGED <<month, now, sheetExists, rows, usageCache, retryCache, lastLog>>
    /\ hist' = IncStarted(hist)
    /\ UNCHANGED offPipe

\* getUsageCount: the store answers the read of Usage!A:B with the rows, with
\* 'Unable to parse range' when the sheet is missing, or with another error
UsageRead(t) ==
    /\ tasks[t].pc = "usageRead"
    /\ \/ /\ sheetExists
          /\ Set(t, [tasks[t] EXCEPT !.pc = "usageResp", !.readOk = TRUE,
                         !.count = StoredCount(rows, tasks[t].cur)])
          /\ UNCHANGED hist
       \/ /\ ~sheetExists
          /\ Set(t, [tasks[t] EXCEPT !.pc = "initGet"])
          /\ UNCHANGED hist
       \/ /\ Set(t, [tasks[t] EXCEPT !.pc = "usageResp", !.readOk = FALSE])
          /\ hist' = StoreFailed(hist, t)
    /\ UNCHANGED <<month, now, sheetExists, rows, usageCache, retryCache, events,
                   lastLog>>
    /\ UNCHANGED offPipe

\* what getUsageCount returns once the read has answered: the row's count, or
\* in the catch block `usageCache.count || 0`
ReadResult(r, c) == IF r.readOk THEN r.count ELSE c.count

\* getUsageCount after the read: refresh the cache, or log and fall back on it
UsageResp(t) ==
    /\ tasks[t].pc = "usageResp"
    /\ IF tasks[t].readOk
       THEN /\ usageCache' = [month |-> tasks[t].cur, count |-> tasks[t].count,
                              lastUpdated |-> now]
            /\ UNCHANGED lastLog
       ELSE /\ lastLog' = "Failed to get usage count"
            /\ UNCHANGED usageCache
    /\ Set(t, AfterCheck(tasks[t], ReadResult(tasks[t], usageCache)))
    /\ UNCHANGED <<month, now, sheetExists, rows, retryCache, events>>
    /\ hist' = Answered(hist, t, ReadResult(tasks[t], usageCache))
    /\ UNCHANGED offPipe

\* the caller's state when initializeUsageSheet rethrows: getUsageCount and
\* checkOCRAvailability reject, processDocument's catch reports the error
InitFailed(r) == Done(r, "checkThrew")

InitThrow(t) ==
    /\ Set(t, InitFailed(tasks[t]))
    /\ lastLog' = "Failed to initialize Usage sheet"
    /\ retryCache' = CatchCache(tasks[t], retryCache, now)
    /\ hist' = [StoreFailed(hist, t) EXCEPT !.fresh = hist.fresh \ {t}]

\* initializeUsageSheet: spreadsheets.get
InitGet(t) ==
    /\ tasks[t].pc = "initGet"
    /\ \/ /\ Set(t, [tasks[t] EXCEPT !.pc = IF sheetExists THEN "initDone"
                                                         ELSE "initAdd"])
          /\ UNCHANGED <<retryCache, lastLog, hist>>
       \/ InitThrow(t)
    /\ UNCHANGED <<month, now, sheetExists, rows, usageCache, events>>
    /\ UNCHANGED offPipe

\* initializeUsageSheet: batchUpdate addSheet (refused when the title exists)
InitAdd(t) ==
    /\ tasks[t].pc = "initAdd"
    /\ \/ /\ ~sheetExists
          /\ sheetExists' = TRUE
          /\ Set(t, [tasks[t] EXCEPT !.pc = "initHeader"])
          /\ UNCHANGED <<retryCache, lastLog, hist>>
       \/ /\ InitThrow(t)
          /\ UNCHANGED sheetExists
    /\ UNCHANGED <<month, now, rows, usageCache, events>>
    /\ UNCHANGED offPipe

\* initializeUsageSheet: values.update of Usage!A1:B1
InitHeader(t) ==
    /\ tasks[t].pc = "initHeader"
    /\ \/ /\ rows' = IF rows = <<>> THEN <<HeaderRow>>
                     ELSE [rows EXCEPT ![1] = HeaderRow]
          /\ Set(t, [tasks[t] EXCEPT !.pc = "initDone"])
          /\ UNCHANGED <<retryCache, lastLog, hist>>
       \/ /\ InitThrow(t)
          /\ UNCHANGED rows
    /\ UNCHANGED <<month, now, sheetExists, usageCache, events>>
    /\ UNCHANGED offPipe

\* getUsageCount after initializeUsageSheet returned: cache and count 0
InitDone(t) ==
    /\ tasks[t].pc = "initDone"
    /\ usageCache' = [month |-> tasks[t].cur, count |-> 0, lastUpdated |-> now]
    /\ Set(t, AfterCheck(tasks[t], 0))
    /\ UNCHANGED <<month, now, sheetExists, rows, retryCache, events, lastLog>>
    /\ hist' = Answered(hist, t, 0)
    /\ UNCHANGED offPipe

\* getUserProfile and downloadImage (a retry only fetches the profile)
Download(t) ==
    /\ tasks[t].pc = "download"
    /\ \/ Set(t, [tasks[t] EXCEPT !.pc = "parse", !.hasBuffer = TRUE])
       \/ Set(t, Done(tasks[t], "error"))
    /\ UNCHANGED <<month, now, sheetExists, rows, usageCache, retryCache, events,
                   lastLog>>
    /\ UNCHANGED hist
    /\ UNCHANGED offPipe

\* AfterParse with the increment moved out of the success path
AfterParse_Unguarded(r, ok, m) == StartInc([r EXCEPT !.parsed = ok], m)

\* the statement after `await geminiService.parseInvoice(...)`: incrementUsage
\* is called when it returned an invoice, the catch block runs when it threw
AfterParse(r, ok, m) ==
    IF ok THEN StartInc([r EXCEPT !.parsed = TRUE], m) ELSE Done(r, "error")

Parse(t) ==
    /\ tasks[t].pc = "parse"
    /\ \E ok \in BOOLEAN :
          /\ Set(t, AfterParse(tasks[t], ok, month))
          /\ retryCache' = IF ok THEN retryCache
                           ELSE CatchCache(tasks[t], retryCache, now)
    /\ UNCHANGED <<month, now, sheetExists, rows, usageCache, events, lastLog>>
    /\ hist' = IF tasks'[t].pc = "incRead" THEN IncStarted(hist) ELSE hist
    /\ UNCHANGED offPipe

\* incrementUsage: the store answers the read (rowIndex, currentCount) or fails
IncRead(t) ==
    /\ tasks[t].pc = "incRead"
    /\ \/ /\ sheetExists
          /\ LET i == FindRow(rows, tasks[t].cur, 1) IN
             Set(t, [tasks[t] EXCEPT !.pc = "incWrite", !.rowIndex = i,
                         !.count = IF i > 0 THEN rows[i].count ELSE 0])
          /\ UNCHANGED hist
       \/ /\ Set(t, [tasks[t] EXCEPT !.pc = "incCatch"])
          /\ hist' = StoreFailed(hist, t)
    /\ UNCHANGED <<month, now, sheetExists, rows, usageCache, retryCache, events,
                   lastLog>>
    /\ UNCHANGED offPipe

\* WriteCount with the 0-based array index used as the sheet's row number
WriteCount_OffByOne(rs, r) ==
    IF r.rowIndex > 1
    THEN [rs EXCEPT ![r.rowIndex - 1].count = r.count + 1]
    ELSE Append(rs, [month |-> r.cur, count |-> r.count + 1])

\* the sheet after incrementUsage's write: update of B<rowIndex>, or append of
\* [currentMonth, newCount]
WriteCount(rs, r) ==
    IF r.rowIndex > 0
    THEN [rs EXCEPT ![r.rowIndex].count = r.count + 1]
    ELSE Append(rs, [month |-> r.cur, count |-> r.count + 1])

IncWrite(t) ==
    /\ tasks[t].pc = "incWrite"
    /\ \/ /\ rows' = WriteCount(rows, tasks[t])
          /\ Set(t, [tasks[t] EXCEPT !.pc = "incDone"])
          /\ UNCHANGED hist
       \/ /\ Set(t, [tasks[t] EXCEPT !.pc = "incCatch"])
          /\ UNCHANGED rows
          /\ hist' = StoreFailed(hist, t)
    /\ UNCHANGED <<month, now, sheetExists, usageCache, retryCache, events, lastLog>>
    /\ UNCHANGED offPipe

\* incrementUsage after the write: "Update cache", log, return newCount
IncDone(t) ==
    /\ tasks[t].pc = "incDone"
    /\ usageCache' = [month |-> tasks[t].cur, count |-> tasks[t].count + 1,
                      lastUpdated |-> now]
    /\ lastLog' = "OCR usage incremented"
    /\ Set(t, AfterInc(tasks[t], tasks[t].count + 1))
    /\ UNCHANGED <<month, now, sheetExists, rows, retryCache, events>>
    /\ hist' = IncReturned(hist, tasks[t].cur, tasks[t].count + 1,
                            ~IncRunning(tasks, t) /\ tasks[t].cur = month)
    /\ UNCHANGED offPipe

\* CatchCount without the optimistic increment
CatchCount_Unchanged(c) == c

\* the cache after incrementUsage's catch block:
\* usageCache.count = (usageCache.count || 0) + 1
CatchCount(c) == [c EXCEPT !.count = c.count + 1]

\* the line incrementUsage's catch block logs
CatchLog == "Failed to increment usage"

IncCatch(t) ==
    /\ tasks[t].pc = "incCatch"
    /\ lastLog' = CatchLog
    /\ usageCache' = CatchCount(usageCache)
    /\ Set(t, AfterInc(tasks[t], usageCache'.count))
    /\ UNCHANGED <<month, now, sheetExists, rows, retryCache, events>>
    /\ hist' = IncReturned(hist, tasks[t].cur, usageCache'.count,
                            ~IncRunning(tasks, t) /\ tasks[t].cur = month)
    /\ UNCHANGED offPipe

\* upload, appendRows and the reply: success clears the user's retry entry, a
\* failure goes to the handler's catch
Finish(t) ==
    /\ tasks[t].pc = "finish"
    /\ \/ /\ Set(t, Done(tasks[t], "ok"))
          /\ retryCache' = [retryCache EXCEPT ![tasks[t].user] = 0]
       \/ /\ Set(t, Done(tasks[t], "error"))
          /\ retryCache' = CatchCache(tasks[t], retryCache, now)
    /\ UNCHANGED <<month, now, sheetExists, rows, usageCache, events, lastLog>>
    /\ UNCHANGED hist
    /\ UNCHANGED offPipe

\* const RETRY_CACHE_TTL = 5 * 60 * 1000
RETRY_CACHE_TTL == 300000

\* setInterval(cleanupRetryCache, 60 * 1000)
CLEANUP_INTERVAL == 60000

\* a stretch without requests, somewhat longer than RETRY_CACHE_TTL
QuietMs == RETRY_CACHE_TTL + TickMs \div 2

\* the clock moves by a short step or by a quiet stretch
TickSteps == {TickMs, QuietMs}

\* the time on the clock apart from the quiet stretch
Elapsed(t) == IF t > QuietMs THEN t - QuietMs ELSE t

\* the last time up to t at which the cleanup timer fired (the timer was set
\* at time 0, when the process started)
LastFiring(t) == (t \div CLEANUP_INTERVAL) * CLEANUP_INTERVAL

\* cleanupRetryCache keeping the entries that are too old
CleanupRetryCache_Never(rc, at) == rc

\* cleanupRetryCache run at time at: entries older than RETRY_CACHE_TTL go
CleanupRetryCache(rc, at) ==
    [u \in DOMAIN rc |->
        IF rc[u] # 0 /\ at - rc[u] > RETRY_CACHE_TTL THEN 0 ELSE rc[u]]

\* the wall clock moves by ms and the cleanup timer fires when it is due;
\* roll: the step crosses the end of the month. There are MaxTicks short
\* steps at most and, before them, one quiet stretch at most, in which no
\* request is being handled.
Tick(roll, ms) ==
    /\ IF ms = TickMs THEN Elapsed(now) < TickMs * (MaxTicks + 1)
       ELSE now = TickMs /\ \A t \in DOMAIN tasks : tasks[t].pc = "idle"
    /\ now' = now + ms
    /\ month' = IF roll /\ month < MaxMonth THEN month + 1 ELSE month
    /\ retryCache' = IF LastFiring(now') > now
                     THEN CleanupRetryCache(retryCache, LastFiring(now'))
                     ELSE retryCache
    /\ hist' = IF month' # month THEN IncStarted(hist) ELSE hist
    /\ UNCHANGED <<sheetExists, rows, usageCache, tasks, events, lastLog>>
    /\ UNCHANGED offPipe

\* the sheets a starting process can find: no Usage sheet yet, the sheet with
\* its header only, or with the record an earlier run left for this month
StartSheets == {<<>>, <<HeaderRow>>, <<HeaderRow, [month |-> 1, count |-> 1]>>}

\* the process has started and no event has arrived
InitOver(T) ==
    /\ month = 1
    /\ now = TickMs
    /\ rows \in StartSheets
    /\ sheetExists = (rows # <<>>)
    /\ usageCache = EmptyCache
    /\ retryCache = [u \in Users |-> 0]
    /\ tasks = [t \in T |-> IdleTask]
    /\ events = 0
    /\ lastLog = "none"
    /\ hist = NoHist(rows, T = LedgerTasks)
    /\ quota = NoQuota
    /\ gem = IdleGem
    /\ ctasks = [t \in CorpTasks |-> IdleCorpTask]
    /\ cevents = 0
    /\ norm = IdleNorm

\* a deployment without CONFIG_SHEET_ID: the config service has no corps tab
NoConfig ==
    /\ corpSheetId = FALSE
    /\ corps = NoCorps
    /\ mcorp = NoChat

\* the steps of the ledger, whoever called it
LedgerStep(t) ==
    \/ UsageRead(t)
    \/ UsageResp(t)
    \/ InitGet(t)
    \/ InitAdd(t)
    \/ InitHeader(t)
    \/ InitDone(t)
    \/ IncRead(t)
    \/ IncWrite(t)
    \/ IncDone(t)
    \/ IncCatch(t)

(***************************************************************************)
(* Spec: the webhook pipeline of the single-corp server                    *)
(***************************************************************************)
Init == InitOver(PipeTasks) /\ NoConfig

Next ==
    \/ \E t \in PipeTasks, k \in DocKinds, u \in Users : ReceiveDocument(t, k, u)
    \/ \E t \in PipeTasks, u \in Users : ReceiveRetry(t, u)
    \/ \E t \in PipeTasks : LedgerStep(t)
    \/ \E t \in PipeTasks : Download(t)
    \/ \E t \in PipeTasks : Parse(t)
    \/ \E t \in PipeTasks : Finish(t)
    \/ \E roll \in BOOLEAN, ms \in TickSteps : Tick(roll, ms)

Spec == Init /\ [][Next]_vars

(***************************************************************************)
(* SpecLedger: the exported functions of usage.js under concurrent callers *)
(***************************************************************************)
InitLedger == InitOver(LedgerTasks) /\ NoConfig

NextLedger ==
    \/ \E t \in LedgerTasks : CallCheck(t)
    \/ \E t \in LedgerTasks : CallIncrement(t)
    \/ \E t \in LedgerTasks : LedgerStep(t)
    \/ \E roll \in BOOLEAN, ms \in TickSteps : Tick(roll, ms)

SpecLedger == InitLedger /\ [][NextLedger]_vars

(***************************************************************************)
(* SpecQuota: the quota gate over counts and limits                        *)
(***************************************************************************)
InitQuota == InitOver(PipeTasks) /\ NoConfig

NextQuota == \E u \in UsedRange, e \in LimitEnvRange : QuotaCall(u, e)

SpecQuota == InitQuota /\ [][NextQuota]_vars

(***************************************************************************)
(* SpecParse: parseInvoice against a backend that answers every call       *)
(***************************************************************************)
InitParse == InitOver(PipeTasks) /\ NoConfig

GemStep ==
    \/ \E o \in {"ok", "json", "429", "404", "other", "nokey"} : GemCall(o)
    \/ GemWake

NextParse ==
    \/ \E e \in GeminiModelEnv : GemStart(e)
    \/ GemStep

SpecParse == InitParse /\ [][NextParse]_vars /\ WF_vars(GemStep)

(***************************************************************************)
(* SpecCorp: the per-corp ledger under concurrent callers and admin edits  *)
(***************************************************************************)
\* the corps tab as the admin set it up; without CONFIG_SHEET_ID there is none
InitCorp ==
    /\ InitOver(PipeTasks)
    /\ corpSheetId \in BOOLEAN
    /\ corps = IF corpSheetId THEN StartCorps ELSE NoCorps
    /\ mcorp = NoChat

NextCorp ==
    \/ \E t \in CorpTasks, c \in CorpNames : CheckCorpQuota(t, c)
    \/ \E t \in CorpTasks, c \in CorpNames : CorpIncRead(t, c)
    \/ \E t \in CorpTasks : CorpIncWrite(t)
    \/ \E c \in CorpNames, l \in Cells, u \in Cells : AdminEdit(c, l, u)

SpecCorp == InitCorp /\ [][NextCorp]_vars

(***************************************************************************)
(* SpecNorm: one model response from parseJsonResponse to the sheet rows   *)
(***************************************************************************)
InitNorm == InitOver(PipeTasks) /\ NoConfig

NextNorm ==
    \/ \E p \in Payloads : ReceiveResponse(p)
    \/ ValidateAndNormalize
    \/ OcrExtractTaxId
    \/ Format
    \/ Renormalize

SpecNorm == InitNorm /\ [][NextNorm]_vars

(***************************************************************************)
(* SpecChat: the multi-corp handler, one webhook event after the other     *)
(***************************************************************************)
InitChat ==
    /\ InitOver(PipeTasks)
    /\ corpSheetId = FALSE
    /\ corps = NoCorps
    /\ mcorp \in StartChats

NextChat ==
    \/ \E u \in Users : HandleFollowEvent(u)
    \/ \E u \in Users, c \in CorpNames \cup {"zeta"} : HandleSelectCorp(u, c)
    \/ \E u \in Users, text \in {"usage", "ADMIN change corp", "hello"} :
           HandleTextMessage(u, text)
    \/ \E u \in Users, canUseOCR \in BOOLEAN : HandleImage(u, canUseOCR)

SpecChat == InitChat /\ [][NextChat]_vars

(***************************************************************************)
(* Claims                                                                  *)
(***************************************************************************)
TaskIds == DOMAIN tasks

\* the stored records of period p: row number -> count
RecordsOf(rs, p) ==
    [i \in {j \in 1..Len(rs) : rs[j].month = p} |-> rs[i].count]

\* the step is the write of some incrementUsage call reaching the store
IsIncWrite(t) == tasks[t].pc = "incWrite" /\ tasks'[t].pc = "incDone"

C1_Inv == \A t \in TaskIds : tasks[t].incCalled => tasks[t].parsed

C1_Step ==
    \A t \in TaskIds :
        tasks[t].pc = "parse" /\ tasks'[t] # tasks[t] =>
            \/ tasks'[t].parsed /\ tasks'[t].incCalled /\ tasks'[t].pc = "incRead"
            \/ /\ ~tasks'[t].parsed /\ ~tasks'[t].incCalled /\ tasks'[t].pc = "idle"
               /\ rows' = rows /\ usageCache' = usageCache

\* C1: in every document-processing run (image, PDF, retry) incrementUsage is
\* invoked only after parseInvoice has returned an invoice in that run; when
\* parseInvoice throws, the run ends without an increment.
C1_IncrementOnlyAfterParse == [](C1_Inv) /\ [][C1_Step]_vars

C1_Witness ==
    \E t \in TaskIds :
        tasks[t].kind = "retry" /\ tasks[t].pc = "incRead" /\ tasks[t].parsed

\* C2: parseInvoice is invoked for a document only after a checkOCRAvailability
\* call of the same run returned canUseOCR = true, on the image, PDF and retry
\* paths alike.
C2_ExtractionGated ==
    \A t \in TaskIds : tasks[t].pc = "parse" => tasks[t].checkedOk

Max0(n) == IF n > 0 THEN n ELSE 0

\* C3: for every used count and limit, checkOCRAvailability returns
\* canUseOCR = (used < limit), remaining = max(0, limit - used), and a quota
\* message that is non-null exactly when canUseOCR is false.
C3_QuotaGate ==
    quota.called =>
        /\ quota.avail.canUseOCR = (quota.used < quota.limit)
        /\ quota.avail.remaining = Max0(quota.limit - quota.used)
        /\ (quota.avail.message # "null") = ~quota.avail.canUseOCR

C3_Witness ==
    /\ quota.called
    /\ quota.used = quota.limit
    /\ quota.limit = DEFAULT_MONTHLY_LIMIT
    /\ ~quota.avail.canUseOCR
    /\ quota.avail.message = "quota"

\* C4: for every period key the persisted count never decreases, over any
\* interleaving of incrementUsage calls.
C4_CountNeverDecreases ==
    [][\A t \in TaskIds : IsIncWrite(t) =>
          \A m \in 1..MaxMonth : StoredCount(rows', m) >= StoredCount(rows, m)]_vars

\* the read of a checkOCRAvailability call has failed and the call is still running
ReadFailed(r) ==
    \/ r.pc = "usageResp" /\ ~r.readOk
    \/ r.pc \in {"initGet", "initAdd", "initHeader", "initDone"}

\* C5: when the store read fails, checkOCRAvailability does not throw: it
\* answers from the last cached count (0 when nothing is cached).
C5_ReadFailureFailsOpen ==
    [][\A t \in TaskIds :
          ReadFailed(tasks[t]) /\ tasks'[t].pc = "idle" =>
              tasks'[t].result = IF usageCache.count < MONTHLY_LIMIT
                                 THEN "allowed" ELSE "quota"]_vars

C6_Step ==
    \A t \in TaskIds :
        /\ tasks[t].pc \in {"incRead", "incWrite"} /\ tasks'[t] # tasks[t] =>
               tasks'[t].pc \in {"incWrite", "incDone", "incCatch"}
        /\ tasks[t].pc = "incCatch" /\ tasks'[t] # tasks[t] =>
               /\ tasks'[t].result = "returned"
               /\ usageCache'.count = usageCache.count + 1
               /\ tasks'[t].incRet = usageCache.count + 1
               /\ lastLog' = "Failed to increment usage"

\* C6: when the store read or write inside incrementUsage fails, incrementUsage
\* does not throw, the cached count advances by exactly 1, the advanced value is
\* returned and the failure is logged.
C6_IncrementFailureDegrades == [][C6_Step]_vars

C6_Witness ==
    /\ lastLog = "Failed to increment usage"
    /\ \E t \in TaskIds :
          /\ tasks[t].result = "returned"
          /\ tasks[t].incRet = usageCache.count
          /\ usageCache.lastUpdated = 0

C8_Step ==
    /\ \A t \in CorpTasks, c \in CorpNames :
          CheckCorpQuota(t, c) =>
              LET r == ctasks'[t] IN
              /\ ~r.threw
              /\ r.pc = "idle"
              /\ ~r.readOk => r.canUse
              /\ r.readOk /\ c \notin DOMAIN corps => r.canUse
              /\ r.readOk /\ c \in DOMAIN corps =>
                     r.canUse = (ParseIntOr(corps[c].used, 0)
                                   < ParseIntOr(corps[c].limit, DEFAULT_CORP_LIMIT))
    /\ \A t \in CorpTasks :
          ctasks'[t].op = "inc" => ~ctasks'[t].threw

C8_CorpQuotaFreshAndFailOpen == [][C8_Step]_vars

C8_Witness ==
    /\ corpSheetId
    /\ \E t \in CorpTasks :
          /\ ctasks[t].op = "check" /\ ~ctasks[t].readOk /\ ctasks[t].canUse
    /\ \E t \in CorpTasks :
          /\ ctasks[t].op = "check" /\ ctasks[t].readOk /\ ~ctasks[t].canUse

\* position of model m in the order ms (0 when it is not there)
PosIn(ms, m) ==
    IF \E i \in DOMAIN ms : ms[i] = m
    THEN CHOOSE i \in DOMAIN ms : ms[i] = m /\ \A j \in 1..(i - 1) : ms[j] # m
    ELSE 0

\* C9: parseInvoice tries the configured primary model first, then the
\* remaining members of the fallback chain in chain order; the calls never go
\* back to an earlier model and no model is at two positions of the order.
C9_ModelOrder ==
    gem.pc # "idle" =>
        LET ms == gem.models
            primary == IF gem.env = "" THEN MODEL_FALLBACK_CHAIN[1] ELSE gem.env
        IN
        /\ ms[1] = primary
        /\ \A i \in DOMAIN MODEL_FALLBACK_CHAIN :
              MODEL_FALLBACK_CHAIN[i] # primary =>
                  PosIn(ms, MODEL_FALLBACK_CHAIN[i]) > 1
        /\ \A i, j \in 2..Len(ms) :
              i < j => /\ PosIn(MODEL_FALLBACK_CHAIN, ms[i]) > 0
                       /\ PosIn(MODEL_FALLBACK_CHAIN, ms[i])
                            < PosIn(MODEL_FALLBACK_CHAIN, ms[j])
        /\ \A i, j \in DOMAIN ms : i # j => ms[i] # ms[j]
        /\ \A i, j \in DOMAIN gem.log :
              i < j => PosIn(ms, gem.log[i]) <= PosIn(ms, gem.log[j])
        /\ \A i \in DOMAIN gem.log : PosIn(ms, gem.log[i]) > 0

C9_Witness ==
    /\ gem.pc = "returned"
    /\ gem.env = MODEL_FALLBACK_CHAIN[2]
    /\ Len(gem.models) = 3
    /\ gem.log = <<MODEL_FALLBACK_CHAIN[2], MODEL_FALLBACK_CHAIN[1],
                   MODEL_FALLBACK_CHAIN[1], MODEL_FALLBACK_CHAIN[3]>>

\* number of calls made to model m
CallsTo(m) == Cardinality({i \in DOMAIN gem.log : gem.log[i] = m})

C10_Bounded ==
    /\ \A i \in DOMAIN gem.models : CallsTo(gem.models[i]) <= 3
    /\ Len(gem.log) <= 3 * Len(gem.models)

\* C10: parseInvoice makes at most 3 backend calls per model, so at most
\* 3 x (number of models in the order) in total, and whatever the backend
\* answers it ends by returning an invoice or by throwing.
C10_BoundedAndTerminates ==
    /\ [](C10_Bounded)
    /\ (gem.pc \in {"call", "wait"}) ~> (gem.pc \in {"returned", "thrown"})

C10_Witness ==
    /\ gem.pc = "thrown"
    /\ Len(gem.models) = 4
    /\ Len(gem.log) = 3 * Len(gem.models)
    /\ gem.lastError.kind = "429"

\* C11: after a call that failed with the model-unavailable (404) signal no
\* further call goes to that model, and the next call, if a model remains,
\* goes to the next model at once, with no backoff wait in between.
C11_Step ==
    GemCall("404") =>
        /\ gem'.wait = 0
        /\ gem'.pc \in {"call", "thrown"}
        /\ gem'.pc = "thrown" <=> gem.mi = Len(gem.models)
        /\ gem'.pc = "call" =>
               /\ gem'.mi = gem.mi + 1
               /\ gem'.attempt = 1
               /\ gem'.models[gem'.mi] # gem.models[gem.mi]

C11_NoCallAfter404 ==
    \A i \in DOMAIN gem.log :
        gem.outs[i] = "404" =>
            /\ \A j \in DOMAIN gem.log : j > i => gem.log[j] # gem.log[i]
            /\ i < Len(gem.log) => PosIn(gem.models, gem.log[i + 1])
                                     = PosIn(gem.models, gem.log[i]) + 1

C11_NotFoundAdvances == [](C11_NoCallAfter404) /\ [][C11_Step]_vars

C11_Witness ==
    /\ gem.pc = "call"
    /\ Len(gem.outs) = 2
    /\ gem.outs[1] = "429"
    /\ gem.outs[2] = "404"
    /\ gem.mi = 2
    /\ gem.wait = 0

\* the errors that are neither a rate limit nor a missing model
OtherErrors == {"json", "other", "nokey"}

\* C12: an attempt failing with an error that is neither a rate-limit nor a
\* model-unavailable signal (a JSON parse failure included) makes parseInvoice
\* throw that very error at once: it is the last attempt of the run and no
\* backend call follows it.
C12_Step ==
    /\ \A o \in OtherErrors :
          GemCall(o) =>
              /\ gem'.pc = "thrown"
              /\ gem'.lastError = [kind |-> o, at |-> Len(gem.outs) + 1]
    /\ gem.pc = "thrown" /\ gem' # gem => gem'.log = <<>> /\ gem'.outs = <<>>

C12_OtherErrorLast ==
    \A i \in DOMAIN gem.outs :
        gem.outs[i] \in OtherErrors =>
            /\ i = Len(gem.outs)
            /\ gem.pc = "thrown"
            /\ gem.lastError = [kind |-> gem.outs[i], at |-> i]

C12_OtherErrorThrowsAtOnce == [](C12_OtherErrorLast) /\ [][C12_Step]_vars

C12_Witness ==
    /\ gem.pc = "thrown"
    /\ gem.outs = <<"404", "429", "json">>
    /\ gem.mi = 2
    /\ Len(gem.models) = 3

\* C13: when every attempt on every model ended in a rate-limit or a
\* model-unavailable signal, parseInvoice does not return: it throws the error
\* of the last attempt made.
C13_ExhaustedThrowsLast ==
    (/\ gem.pc \in {"returned", "thrown"}
     /\ \A i \in DOMAIN gem.outs : gem.outs[i] \in {"429", "404"}) =>
        /\ gem.pc = "thrown"
        /\ gem.outs # <<>>
        /\ gem.lastError = [kind |-> gem.outs[Len(gem.outs)], at |-> Len(gem.outs)]

C13_Witness ==
    /\ gem.pc = "thrown"
    /\ Len(gem.models) = 3
    /\ gem.outs = <<"404", "429", "429", "429", "429", "404">>

\* a payload has been through validateJsonSchema and normalizeInvoiceData
Handled == norm.pc \in {"returned", "thrown", "formatted", "renormalized"}

\* parseInvoice returned an invoice for the payload
Returned == norm.pc \in {"returned", "formatted", "renormalized"}

\* C14: schema validation is never a gate: for every response that parses as
\* JSON, validation at most logs a warning, and parseInvoice still returns
\* the normalized invoice instead of throwing.
C14_ValidationNeverGates ==
    Handled =>
        /\ ~ValidateJsonSchema(norm.raw).threw
        /\ ~ValidateJsonSchema(norm.raw).isValid =>
               /\ ~norm.res.threw
               /\ norm.res.warned
               /\ ~norm.res.invoice.threw

\* C15: for every raw payload (fields missing, of the wrong type, line-item
\* entries that are null or not objects, numbers out of range)
\* normalizeInvoiceData does not throw, and its result has a confidence in
\* [0, 1], a finite grandTotal, and only line items with a nonzero amount and a
\* nonempty description.
C15_NormalizeIsTotal ==
    (Handled /\ norm.raw.t \notin {"null", "undef"}) =>
        /\ ~norm.res.threw
        /\ ~LessThan(norm.res.invoice.confidence, Whole(0))
        /\ ~LessThan(Whole(1), norm.res.invoice.confidence)
        /\ ~IsNaN(norm.res.invoice.confidence)
        /\ IsFinite(norm.res.invoice.grandTotal)
        /\ \A i \in DOMAIN norm.res.invoice.lineItems :
              /\ ~IsZero(norm.res.invoice.lineItems[i].amount)
              /\ Truthy(norm.res.invoice.lineItems[i].description)

\* C16: the line items that survive the filter carry the itemNumbers 1..n,
\* without gaps, in their original order.
C16_ItemNumbersSequential ==
    Returned =>
        \A i \in DOMAIN norm.res.invoice.lineItems :
            norm.res.invoice.lineItems[i].itemNumber = i

\* C17: VAT is exclusive: when a normalized line item has the line type 'vat'
\* the invoice's vatAmount is 0, and otherwise it is parseNumber of the raw
\* vatAmount.
C17_VatExclusive ==
    Returned =>
        norm.res.invoice.vatAmount =
            IF \E i \in DOMAIN norm.res.invoice.lineItems :
                   norm.res.invoice.lineItems[i].lineType = TypeVat
            THEN Whole(0)
            ELSE ParseNumber(Get(norm.raw, "vatAmount"))

C17_Witness ==
    /\ norm.pc = "returned"
    /\ Get(norm.raw, "vatAmount") = Whole(7)
    /\ Len(norm.res.invoice.lineItems) = 2
    /\ norm.res.invoice.lineItems[2].lineType = TypeVat
    /\ norm.res.invoice.vatAmount = Whole(0)

\* the raw entry a normalized line item was made from
RawItemOf(it) == Get(norm.raw, "lineItems").v[it.itemNumber]

\* the lineType of a raw entry in lower case, empty when it has none
GivenType(raw) ==
    IF Get(raw, "lineType").t = "str" THEN ToLowerCase(Get(raw, "lineType").v)
    ELSE <<>>

\* C18: every normalized line item has a line type among item, discount,
\* credit, service and vat; no 'item' has a negative amount: a negative item
\* becomes 'credit' when its description contains 'cn', 'credit' or 'refund'
\* in any case of letters, and 'discount' otherwise; the other valid types are
\* kept as given.
C18_LineTypes ==
    Returned =>
        \A i \in DOMAIN norm.res.invoice.lineItems :
            LET it == norm.res.invoice.lineItems[i]
                given == GivenType(RawItemOf(it))
                kept == given \in {TypeDiscount, TypeCredit, TypeService, TypeVat}
            IN /\ it.lineType \in {TypeItem, TypeDiscount, TypeCredit, TypeService,
                                   TypeVat}
               /\ ~(it.lineType = TypeItem /\ IsNegative(it.amount))
               /\ kept => it.lineType = given
               /\ (~kept /\ ~IsNegative(it.amount)) => it.lineType = TypeItem
               /\ (~kept /\ IsNegative(it.amount)) =>
                      it.lineType =
                          IF \/ Includes(ToLowerCase(it.description.v), <<"c", "n">>)
                             \/ Includes(ToLowerCase(it.description.v),
                                         <<"c", "r", "e", "d", "i", "t">>)
                             \/ Includes(ToLowerCase(it.description.v),
                                         <<"r", "e", "f", "u", "n", "d">>)
                          THEN TypeCredit ELSE TypeDiscount

C18_Witness ==
    /\ norm.pc = "returned"
    /\ Len(norm.res.invoice.lineItems) = 1
    /\ norm.res.invoice.lineItems[1].description = Str(<<"a", "C", "N", "e">>)
    /\ norm.res.invoice.lineItems[1].amount = Whole(0 - 2)
    /\ Get(RawItemOf(norm.res.invoice.lineItems[1]), "lineType") = Str(TypeItem)
    /\ norm.res.invoice.lineItems[1].lineType = TypeCredit

Col(headers, name) == CHOOSE i \in DOMAIN headers : headers[i] = name

\* the item columns of both layouts
ItemColumns(headers) == Col(headers, "Item #")..(Col(headers, "Item #") + 5)

\* formatForSheets returned k rows for k >= 1 line items, in item order, and one
\* row with blank item columns for none
RowPerItem(out, items, headers) ==
    /\ Len(out) = IF Len(items) = 0 THEN 1 ELSE Len(items)
    /\ Len(items) = 0 =>
           \A c \in ItemColumns(headers) : c \in DOMAIN out[1] /\ out[1][c] = Blank
    /\ \A i \in DOMAIN items :
          /\ Col(headers, "Item #") + 2 \in DOMAIN out[i]
          /\ out[i][Col(headers, "Item #")] = Str(IntToStr(items[i].itemNumber))
          /\ out[i][Col(headers, "Line Type")] = Str(items[i].lineType)
          /\ out[i][Col(headers, "Item #") + 2] = items[i].description

\* the cells of every row stand in the columns the header row names
InSchemaOrder(out, inv, headers) ==
    \A i \in DOMAIN out :
        /\ Len(out[i]) = Len(headers)
        /\ out[i][Col(headers, "Processed At")] = Text("ts")
        /\ out[i][Col(headers, "Invoice Date")] = Or(inv.invoiceDate, Blank)
        /\ out[i][Col(headers, "Seller Tax ID")] = Or(inv.sellerTaxId, Blank)
        /\ out[i][Col(headers, "Subtotal")] = Or(inv.subtotal, Blank)
        /\ out[i][Col(headers, "VAT 7%")] = Or(inv.vatAmount, Blank)
        /\ out[i][Col(headers, "Grand Total")] = Or(inv.grandTotal, Blank)
        /\ out[i][Col(headers, "Image URL")] = Text("url")
        /\ out[i][Col(headers, "Confidence")].t = "str"

StrippedTaxId(text) ==
    LET digits == SelectSeq(text, LAMBDA c : c \notin {" ", "-", "."})
        runs == {i \in 1..(Len(digits) - 12) :
                    \A k \in 0..12 : digits[i + k] \in
                        {"0", "1", "2", "3", "4", "5", "6", "7", "8", "9"}}
    IN IF runs = {} THEN Null
       ELSE Str(SubSeq(digits, CHOOSE i \in runs : \A j \in runs : i <= j,
                       (CHOOSE i \in runs : \A j \in runs : i <= j) + 12))

\* C21: extractTaxId returns the first run of 13 consecutive digits of the
\* input with whitespace, hyphens and dots removed, and null for an input
\* without such a run.
C21_TaxIdStripped ==
    /\ (Returned /\ Get(norm.raw, "sellerTaxId").t = "str") =>
           norm.res.invoice.sellerTaxId
               = StrippedTaxId(Get(norm.raw, "sellerTaxId").v)
    /\ norm.pc = "extracted" =>
           norm.taxId = StrippedTaxId(Get(norm.raw, "sellerTaxId").v)

(***************************************************************************)
(* Claims on the usage ledger and its cache                                *)
(***************************************************************************)
\* the step is the start of a getUsageCount call of task t
IsCheckStart(t) ==
    CallCheck(t) \/ \E k \in DocKinds, u \in Users : ReceiveDocument(t, k, u)

\* the step is a getUsageCount call of task t answered from the cache at once
IsCacheAnswer(t) == IsCheckStart(t) /\ tasks'[t].pc # "usageRead"

\* C22: while the store is reachable and at most N documents are in flight,
\* the completed incrementUsage calls of every period exceed the persisted
\* count of that period by at most N - 1.
C22_UnderCountBounded ==
    ~hist.storeFailed =>
        \A m \in 1..MaxMonth :
            hist.incs[m] - StoredCount(rows, m) <= Cardinality(TaskIds) - 1

\* C23: the store never holds more than one record for a period key, and the
\* record a first increment creates has count 1.
C23_OneRecordPerPeriod ==
    \A m \in 1..MaxMonth :
        /\ Cardinality(DOMAIN RecordsOf(rows, m)) <= 1
        /\ \A t \in TaskIds :
               (tasks[t].pc = "incDone" /\ tasks[t].cur = m /\ tasks[t].rowIndex = 0)
                   => tasks[t].count + 1 = 1

\* C24: once incrementUsage has returned n, a getUsageCount call made after
\* it in the same period, with no increment in between, reports n.
C24_Step ==
    \A t \in TaskIds :
        /\ (IsCacheAnswer(t) /\ hist.lastInc > 0) => hist'.reported = hist.lastInc
        /\ (tasks[t].pc \in {"usageResp", "initDone"} /\ tasks'[t] # tasks[t]
                /\ t \in hist.fresh)
               => hist'.reported = hist.lastInc

C24_ReadYourIncrement == [][C24_Step]_vars

\* C25: getUsageCount never answers with a count cached under another period
\* key: a cache hit has the key of the call, and after a rollover a failed
\* store read answers with the new period's count, 0 when it has no record,
\* not with the count cached under the old key.
C25_Step ==
    \A t \in TaskIds :
        /\ IsCacheAnswer(t) => usageCache.month = month
        /\ (tasks[t].pc = "usageResp" /\ tasks'[t] # tasks[t] /\ ~tasks[t].readOk
                /\ usageCache.month \notin {0, tasks[t].cur})
               => hist'.reported = StoredCount(rows, tasks[t].cur)

C25_NoCountOfAnotherPeriod == [][C25_Step]_vars

\* C26: getUsageCount answers from the cache, with no store read, exactly
\* when the cached key is the current key and lastUpdated is less than 60 s
\* old; otherwise it reads the store, and a successful read replaces the cache
\* with the store's value and a fresh lastUpdated.
C26_Step ==
    \A t \in TaskIds :
        /\ IsCheckStart(t) =>
               IF usageCache.month = month /\ now - usageCache.lastUpdated < 60000
               THEN /\ tasks'[t].pc # "usageRead"
                    /\ hist'.reported = usageCache.count
                    /\ usageCache' = usageCache
               ELSE /\ tasks'[t].pc = "usageRead"
                    /\ tasks'[t].cur = month
        /\ (tasks[t].pc = "usageRead" /\ tasks'[t].pc = "usageResp"
                /\ tasks'[t].readOk)
               => tasks'[t].count = StoredCount(rows, tasks[t].cur)
        /\ (tasks[t].pc = "usageResp" /\ tasks'[t] # tasks[t] /\ tasks[t].readOk)
               => /\ usageCache' = [month |-> tasks[t].cur,
                                    count |-> tasks[t].count, lastUpdated |-> now]
                  /\ hist'.reported = tasks[t].count

C26_CacheHitExactly == [][C26_Step]_vars

\* a cache older than a minute was replaced by a store read, and the fresh
\* cache then answered a call
C26_Witness ==
    /\ usageCache.month = month
    /\ usageCache.lastUpdated > RETRY_CACHE_TTL
    /\ now - usageCache.lastUpdated < 60000
    /\ hist.reported = usageCache.count
    /\ \A t \in TaskIds : tasks[t].pc = "idle"
    /\ events = MaxCalls

(***************************************************************************)
(* Claims on the retry policy of parseInvoice                              *)
(***************************************************************************)
\* C27: attempt a (1..3) failing with the rate-limit signal waits
\* 5000 * 2^a ms, and the next call, if attempts remain for the model, goes
\* to the same model; there is no wait before a first attempt or after a
\* failure of another kind.
C27_Step ==
    /\ GemCall("429") =>
           /\ gem'.pc = "wait"
           /\ \E a \in 1..3 : gem.attempt = a /\ gem'.wait = 5000 * 2^a
    /\ GemWake =>
           /\ gem'.wait = 0
           /\ gem.attempt < 3 =>
                  /\ gem'.pc = "call"
                  /\ gem'.mi = gem.mi
                  /\ gem'.attempt = gem.attempt + 1
           /\ gem.attempt = 3 =>
                  \/ gem'.pc = "thrown"
                  \/ gem'.pc = "call" /\ gem'.mi = gem.mi + 1 /\ gem'.attempt = 1
    /\ (\E env \in GeminiModelEnv : GemStart(env)) =>
           gem'.pc = "call" /\ gem'.wait = 0
    /\ (\E o \in {"ok", "json", "404", "other", "nokey"} : GemCall(o)) =>
           gem'.pc # "wait" /\ gem'.wait = 0

\* a wait is pending only after a rate-limited attempt, never at a call
C27_WaitOnlyAfter429 ==
    /\ gem.pc = "wait" <=> gem.wait > 0
    /\ gem.pc = "wait" => gem.outs[Len(gem.outs)] = "429"

C28_QuotaNeverExceeded ==
    ~hist.storeFailed =>
        /\ \A t \in TaskIds :
               tasks[t].pc = "parse" => StoredCount(rows, month) < MONTHLY_LIMIT
        /\ \A m \in 1..MaxMonth : StoredCount(rows, m) <= MONTHLY_LIMIT

\* C29: a retry_ocr postback re-processes only a document cached for the
\* same user by a failed run less than RETRY_CACHE_TTL earlier; with no entry
\* it answers that no image was found and extracts nothing; a successful
\* processing or retry removes the user's entry.
C29_Step ==
    \A t \in TaskIds :
        /\ \A u \in Users :
               ReceiveRetry(t, u) =>
                   IF retryCache[u] # 0 /\ now - retryCache[u] < RETRY_CACHE_TTL
                   THEN tasks'[t].pc = "download" /\ tasks'[t].user = u
                   ELSE tasks'[t].pc = "idle" /\ tasks'[t].result = "noimage"
        /\ (tasks[t].pc = "finish" /\ tasks'[t].result = "ok") =>
               retryCache'[tasks[t].user] = 0

C29_RetryOnlyFreshEntry == [][C29_Step]_vars

(***************************************************************************)
(* Claims on the multi-corp handler                                        *)
(***************************************************************************)
\* C30: a select_corp postback changes a user's corp and makes the user
\* active only if the user is pending or an admin; a non-admin user who
\* starts blocked never becomes active and none of their images reaches
\* extraction.
C30_Step ==
    \A u \in Users :
        (mcorp'.dir[u] # mcorp.dir[u] /\ mcorp'.dir[u].status = "active") =>
            \/ mcorp.dir[u].status \in {"pending", ""}
            \/ u \in mcorp.admins

C30_BlockedStaysOut ==
    \A u \in Users :
        (u \notin mcorp.admins /\ mcorp.start[u].status = "blocked") =>
            /\ mcorp.dir[u].status # "active"
            /\ u \notin mcorp.extracted

C30_SelectCorpGuarded == [](C30_BlockedStaysOut) /\ [][C30_Step]_vars

====
